---- MODULE Spec2Model ----
(***************************************************************************)
(* Verification model of the site-traversal crawler of featureDetective:   *)
(*   - AdvancedSiteCrawler   (backend/crawlers/advanced_site_crawler.py)   *)
(*   - RecursiveCrawlerService._crawl_sync                                 *)
(*                           (backend/services/crawlee_crawler_service.py) *)
(*   - RateLimiter.wait      (backend/utils/rate_limiter.py) and the       *)
(*     crawlers' own _rate_limit                                           *)
(* Strings (URLs, glob patterns, domains) are sequences of one-character   *)
(* strings, so that startswith / endswith / "in" are computed as Python    *)
(* computes them.                                                          *)
(***************************************************************************)
EXTENDS Integers, Sequences, FiniteSets, TLC

VARIABLES
    impl,              \* which crawler runs: "advanced" | "recursive"
    base_url,          \* the argument of crawl() / _crawl_sync()
    config,            \* CrawlConfig / the service's max_pages, max_depth
    site,              \* the crawled site's robots.txt and sitemap documents
    pc,                \* position inside crawl(): idle, sitemap, loop, fetch, handle, done
    visited_urls,      \* self.visited_urls / visited_urls
    url_queue,         \* self.url_queue / url_queue (FIFO frontier)
    crawl_results,     \* self.crawl_results / results
    stats,             \* self.stats
    current,           \* the frontier entry popped by the running iteration
    page_data,         \* what _fetch_page returned for current
    outbound,          \* the latest outbound HTTP request of the crawl
    slept,             \* _crawl_sync: time.sleep(delay) ran since the latest request
    outcome,           \* how the call ended: nothing yet, a returned list, a raised exception
    held,              \* the list object an earlier crawl() returned to its caller
    sm_pc,             \* _get_sitemap_urls: idle, run, done
    sm_pending,        \* _get_sitemap_urls: the sitemaps it has still to parse
    sm_stack,          \* the _parse_sitemap calls in progress, outermost first
    sitemap_urls,      \* _get_sitemap_urls: sitemap_urls
    job,               \* the row of the Job in the database
    task,              \* feature_detection_task: its position and local variables
    emitted,           \* the events websocket_manager was given, in order
    revoke,            \* task_result.revoke(terminate=True): none, sent, done
    cancelled,         \* "no", or where the task was when cancel_job committed 'cancelled'
    invocations,       \* the concurrent calls of a crawler, one record a call
    crawlers,          \* the crawler objects / _crawl_sync frames that exist
    web,               \* the site the concurrent calls crawl
    op,                \* the matcher function that was called: idle, similarity, find_best, map, dedupe
    text1,             \* _calculate_similarity: first argument
    text2,             \* _calculate_similarity: second argument
    final_similarity,  \* _calculate_similarity: the value returned
    target_feature_name, \* _find_best_feature_match: first argument
    candidates,        \* _find_best_feature_match: the product's own features
    best_match,        \* _find_best_feature_match: the value returned
    merged_features,   \* _map_features_to_products: first argument
    product_features,  \* _map_features_to_products: second argument
    product_feature_mapping, \* _map_features_to_products: the value returned
    features,          \* _remove_duplicate_features: the argument
    unique_features,   \* _remove_duplicate_features: the value returned
    filter_url,        \* _matches_pattern: first argument
    filter_patterns,   \* _matches_pattern: second argument
    filter_matched,    \* _matches_pattern: the value returned
    rl_kind,           \* which rate limiter: "RateLimiter" | "advanced" | "base"
    min_interval,      \* RateLimiter.min_interval / config.rate_limit / rate_limit, in ticks
    now,               \* time.time(), in ticks
    last_request_time, \* self.last_request_time
    request_times,     \* RateLimiter.request_times (deque)
    prev_return,       \* time at which the previous wait() returned (0: none yet)
    last_return        \* time at which the latest wait() returned (0: none yet)

vars == <<impl, base_url, config, site, pc, visited_urls, url_queue, crawl_results, stats,
          current, page_data, outbound, slept, outcome, held,
          sm_pc, sm_pending, sm_stack, sitemap_urls,
          job, task, emitted, revoke, cancelled, invocations, crawlers, web, op, text1, text2, final_similarity,
          target_feature_name, candidates, best_match, merged_features, product_features,
          product_feature_mapping, features, unique_features,
          filter_url, filter_patterns, filter_matched, rl_kind, min_interval, now, last_request_time, request_times,
          prev_return, last_return>>

crawlVars == <<impl, base_url, config, site, pc, visited_urls, url_queue, crawl_results,
               stats, current, page_data, outbound, slept, outcome>>

rateVars == <<rl_kind, min_interval, now, last_request_time, request_times, prev_return, last_return>>

featureVars == <<op, text1, text2, final_similarity, target_feature_name, candidates, best_match,
                 merged_features, product_features, product_feature_mapping, features,
                 unique_features>>

filterVars == <<filter_url, filter_patterns, filter_matched>>

reuseVars == <<held>>

sitemapVars == <<sm_pc, sm_pending, sm_stack, sitemap_urls>>

jobVars == <<job, task, emitted, revoke, cancelled>>

pairVars == <<invocations, crawlers, web>>

----------------------------------------------------------------------------
(* Bounds of the model *)

MaxPagesBound == 3      \* max_pages ranges over 0..MaxPagesBound
MaxDepthBound == 2      \* max_depth ranges over 0..MaxDepthBound
MaxLinks == 1           \* a fetched page carries at most MaxLinks links
RecursionLimit == 3     \* interpreter recursion limit seen by _parse_sitemap
TicksPerSecond == 3     \* resolution of the clock
MaxInterval == 3        \* min_interval ranges over 1..MaxInterval ticks
MaxTime == 12           \* no call starts after this time
MaxOversleep == 1       \* time.sleep(x) returns after x..x+MaxOversleep ticks
MaxPatterns == 2        \* a pattern list given to _matches_pattern has at most MaxPatterns patterns
MaxUrls == 4            \* a job has at most MaxUrls product URLs
MaxConcurrent == 2      \* at most MaxConcurrent crawls run at the same time
MaxCandidates == 2      \* a product has at most MaxCandidates features of its own
MaxMerged == 2          \* at most MaxMerged merged features are mapped
MaxFeatures == 3        \* at most MaxFeatures features are deduplicated

----------------------------------------------------------------------------
(* Python string primitives on sequences of characters *)

SeqsUpTo(S, n) == UNION {[1..k -> S] : k \in 0..n}

\* s.startswith(p)
StartsWith(s, p) == Len(p) <= Len(s) /\ SubSeq(s, 1, Len(p)) = p

\* s.endswith(p)
EndsWith(s, p) == Len(p) <= Len(s) /\ SubSeq(s, Len(s) - Len(p) + 1, Len(s)) = p

\* p in s
Contains(s, p) == \E i \in 1..(Len(s) - Len(p) + 1) : SubSeq(s, i, i + Len(p) - 1) = p

\* index of the first character of s, at or after position from, that is in cs;
\* Len(s) + 1 when there is none
FirstOf(s, cs, from) ==
    IF \E i \in from..Len(s) : s[i] \in cs
    THEN CHOOSE i \in from..Len(s) : s[i] \in cs /\ \A j \in from..(i - 1) : s[j] \notin cs
    ELSE Len(s) + 1

\* str.lower(), on the letters the model uses
LowerChar(c) ==
    CASE c = "P" -> "p" [] c = "D" -> "d" [] c = "F" -> "f" [] c = "H" -> "h"
      [] c = "A" -> "a" [] c = "C" -> "c" [] OTHER -> c

Lower(s) == [i \in 1..Len(s) |-> LowerChar(s[i])]

\* urlparse(url): position of the character that follows "scheme:"
AfterScheme(url) ==
    LET c == FirstOf(url, {":"}, 1)
    IN  IF c <= Len(url) /\ c > 1 /\ \A j \in 1..(c - 1) : url[j] \notin {"/", "?", "#"}
        THEN c + 1 ELSE 1

HasNetloc(url) ==
    LET a == AfterScheme(url)
    IN  a + 1 <= Len(url) /\ url[a] = "/" /\ url[a + 1] = "/"

\* urlparse(url).netloc
Netloc(url) ==
    LET a == AfterScheme(url)
    IN  IF HasNetloc(url)
        THEN SubSeq(url, a + 2, FirstOf(url, {"/", "?", "#"}, a + 2) - 1)
        ELSE <<>>

\* urlparse(url).path
Path(url) ==
    LET a == AfterScheme(url)
        p == IF HasNetloc(url) THEN FirstOf(url, {"/", "?", "#"}, a + 2) ELSE a
    IN  SubSeq(url, p, FirstOf(url, {"?", "#"}, p) - 1)

\* url.split('#')[0]
StripFragment(url) == SubSeq(url, 1, FirstOf(url, {"#"}, 1) - 1)

----------------------------------------------------------------------------
(* The URLs of the modelled site *)

U_root == <<"h", ":", "/", "/", "a", "/">>
U_doc  == <<"h", ":", "/", "/", "a", "/", "d">>
U_pdf  == <<"h", ":", "/", "/", "a", "/", "r", "e", "p", "o", "r", "t", ".", "p", "d", "f">>
U_sub  == <<"h", ":", "/", "/", "s", ".", "a", "/", "x">>
U_ext  == <<"h", ":", "/", "/", "b", "/", "y">>
U_frag == <<"h", ":", "/", "/", "a", "/", "d", "#", "f">>

URLs == {U_root, U_doc, U_pdf, U_sub, U_ext, U_frag}

\* the seed URLs a crawl may be started with
BaseUrls == {U_root, U_pdf}

P_pdf == <<"*", ".", "p", "d", "f">>
P_doc == <<"/", "d">>

\* the lists of links a fetched page may carry
LinkLists == SeqsUpTo(URLs, MaxLinks)

\* the same without the fragment link: only RecursiveCrawlerService looks at
\* the fragment, to AdvancedSiteCrawler U_frag is one more page of the site
PlainLinkLists == SeqsUpTo(URLs \ {U_frag}, MaxLinks)

----------------------------------------------------------------------------
(* CrawlConfig, and the sitemap documents a site may serve *)

\* every page and depth ceiling with and without sitemap and "*.pdf" exclusion,
\* and the largest crawl also without subdomains and with an include pattern
Configs ==
    [max_pages : 0..MaxPagesBound,
     max_depth : 0..MaxDepthBound,
     use_sitemap : BOOLEAN,
     respect_robots_txt : {TRUE},
     follow_subdomains : {TRUE},
     include_patterns : {<<>>},
     exclude_patterns : {<<>>, <<P_pdf>>}]
    \cup
    [max_pages : {MaxPagesBound},
     max_depth : {MaxDepthBound},
     use_sitemap : {TRUE},
     respect_robots_txt : BOOLEAN,
     follow_subdomains : BOOLEAN,
     include_patterns : {<<>>, <<P_doc>>},
     exclude_patterns : {<<P_pdf>>}]

\* RecursiveCrawlerService has max_pages and max_depth only
ServiceConfigs ==
    [max_pages : 0..MaxPagesBound,
     max_depth : 0..MaxDepthBound,
     use_sitemap : {FALSE},
     respect_robots_txt : {FALSE},
     follow_subdomains : {TRUE},
     include_patterns : {<<>>},
     exclude_patterns : {<<>>}]

SitemapIds == {"sitemap.xml", "sitemap_index.xml", "sitemap/sitemap.xml", "child.xml"}

\* a response: its HTTP status and what its body parses to; "unreachable" is a
\* request that raises, "malformed" a body that is not XML
Doc(st, k, us, ss) == [status |-> st, kind |-> k, urls |-> us, sitemaps |-> ss]

Unreachable == Doc(0, "unreachable", <<>>, <<>>)
NotFound == Doc(404, "malformed", <<>>, <<>>)
Urlset(us) == Doc(200, "urlset", us, <<>>)
SitemapIndex(ss) == Doc(200, "sitemapindex", <<>>, ss)

NoDocs == [s \in SitemapIds |-> NotFound]

\* every robots.txt / sitemap request fails: 404, no answer, or a 404 whose
\* body happens to be a sitemap
SiteNone ==
    [robots |-> [status |-> 404, sitemaps |-> <<"child.xml">>],
     docs |-> [NoDocs EXCEPT !["sitemap_index.xml"] = Unreachable,
                             !["sitemap/sitemap.xml"] = Doc(404, "urlset", <<U_doc>>, <<>>),
                             !["child.xml"] = Doc(404, "urlset", <<U_doc>>, <<>>)]]

\* robots.txt names /sitemap.xml, which is also probed as a well-known path
SiteRobots ==
    [robots |-> [status |-> 200, sitemaps |-> <<"sitemap.xml">>],
     docs |-> [NoDocs EXCEPT !["sitemap.xml"] = Urlset(<<U_doc, U_pdf>>)]]

\* a sitemap index with one child; robots.txt fails
SiteIndex ==
    [robots |-> [status |-> 404, sitemaps |-> <<>>],
     docs |-> [NoDocs EXCEPT !["sitemap_index.xml"] = SitemapIndex(<<"child.xml">>),
                             !["child.xml"] = Urlset(<<U_root, U_ext>>)]]

\* a sitemap index that lists itself
SiteCyclic ==
    [robots |-> [status |-> 200, sitemaps |-> <<>>],
     docs |-> [NoDocs EXCEPT !["sitemap_index.xml"] =
                                 SitemapIndex(<<"sitemap_index.xml", "child.xml">>),
                             !["child.xml"] = Urlset(<<U_sub>>)]]

Sites == {SiteNone, SiteRobots, SiteIndex, SiteCyclic}

----------------------------------------------------------------------------
(* AdvancedSiteCrawler: URL filter *)

\* the suffix pattern tested against the start of the URL
matches_one_prefix(url, pattern) ==
    IF StartsWith(pattern, <<"*">>)
    THEN IF EndsWith(pattern, <<"*">>)
         THEN Contains(url, SubSeq(pattern, 2, Len(pattern) - 1))
         ELSE StartsWith(url, SubSeq(pattern, 2, Len(pattern)))
    ELSE Contains(url, pattern)

\* one iteration of the loop of _matches_pattern
matches_one(url, pattern) ==
    IF StartsWith(pattern, <<"*">>)
    THEN IF EndsWith(pattern, <<"*">>)
         THEN Contains(url, SubSeq(pattern, 2, Len(pattern) - 1))
         ELSE EndsWith(url, SubSeq(pattern, 2, Len(pattern)))
    ELSE Contains(url, pattern)

matches_pattern(url, patterns) ==
    \E i \in 1..Len(patterns) : matches_one(url, patterns[i])

is_same_domain(cfg, domain1, domain2) ==
    \/ domain1 = domain2
    \/ /\ cfg.follow_subdomains
       /\ \/ EndsWith(domain1, <<".">> \o domain2)
          \/ EndsWith(domain2, <<".">> \o domain1)

should_crawl_url(cfg, visited, url, base_domain) ==
    /\ url \notin visited
    /\ ~matches_pattern(url, cfg.exclude_patterns)
    /\ (cfg.include_patterns = <<>> \/ matches_pattern(url, cfg.include_patterns))
    /\ is_same_domain(cfg, Netloc(url), base_domain)
    /\ (cfg.follow_subdomains \/ Netloc(url) = base_domain)

----------------------------------------------------------------------------
(* AdvancedSiteCrawler: sitemap ingestion *)

RECURSIVE ConcatAll(_)
ConcatAll(ss) == IF ss = <<>> THEN <<>> ELSE Head(ss) \o ConcatAll(Tail(ss))

\* _parse_sitemap without raise_for_status(): the body of an error response
\* is parsed like any other
RECURSIVE parse_sitemap_any_status(_, _, _)
parse_sitemap_any_status(st, sitemap_url, fuel) ==
    LET doc == st.docs[sitemap_url]
    IN  IF fuel = 0 \/ doc.kind = "unreachable" THEN <<>>
        ELSE IF doc.kind = "malformed" THEN <<>>
        ELSE IF doc.kind = "sitemapindex"
        THEN ConcatAll([i \in 1..Len(doc.sitemaps) |->
                            parse_sitemap_any_status(st, doc.sitemaps[i], fuel - 1)])
        ELSE doc.urls

\* _parse_sitemap; fuel is the recursion depth left before RecursionError,
\* which the except clause turns into []
RECURSIVE parse_sitemap(_, _, _)
parse_sitemap(st, sitemap_url, fuel) ==
    LET doc == st.docs[sitemap_url]
    IN  IF fuel = 0 \/ doc.kind = "unreachable" THEN <<>>
        ELSE IF doc.status >= 400 THEN <<>>
        ELSE IF doc.kind = "malformed" THEN <<>>
        ELSE IF doc.kind = "sitemapindex"
        THEN ConcatAll([i \in 1..Len(doc.sitemaps) |->
                            parse_sitemap(st, doc.sitemaps[i], fuel - 1)])
        ELSE doc.urls

common_sitemaps == <<"sitemap.xml", "sitemap_index.xml", "sitemap/sitemap.xml">>

get_sitemap_urls(cfg, st) ==
    LET fromRobots ==
            IF cfg.respect_robots_txt /\ st.robots.status = 200
            THEN ConcatAll([i \in 1..Len(st.robots.sitemaps) |->
                                parse_sitemap(st, st.robots.sitemaps[i], RecursionLimit)])
            ELSE <<>>
        fromCommon ==
            ConcatAll([i \in 1..Len(common_sitemaps) |->
                           parse_sitemap(st, common_sitemaps[i], RecursionLimit)])
    IN  fromRobots \o fromCommon

----------------------------------------------------------------------------
(* AdvancedSiteCrawler: sitemap ingestion, one request at a time *)

\* a _parse_sitemap call that is working through a sitemap index: the child
\* sitemaps it has still to parse and its urls list
Frame(cs, us) == [children |-> cs, urls |-> us]

\* a sitemap index and its only child list each other; robots.txt names the child
SiteMutual ==
    [robots |-> [status |-> 200, sitemaps |-> <<"child.xml">>],
     docs |-> [NoDocs EXCEPT !["sitemap.xml"] = SitemapIndex(<<"child.xml">>),
                             !["child.xml"] = SitemapIndex(<<"sitemap.xml", "child.xml">>),
                             !["sitemap/sitemap.xml"] = Urlset(<<U_doc>>)]]

SitemapSites == Sites \cup {SiteMutual}

\* the interpreter refuses one more nested call: RecursionError
recursion_error(depth) == depth >= RecursionLimit

\* the index followed in the frame of its parent
push_in_place(stack, frame) ==
    IF stack = <<>> THEN <<frame>> ELSE [stack EXCEPT ![Len(stack)] = frame]

\* self._parse_sitemap(sitemap.text): a new call on top of the calls in progress
push(stack, frame) == Append(stack, frame)

\* urls.extend(...) / sitemap_urls.extend(...) in the caller of the innermost call
extend_caller(stack, top_urls, urls) ==
    IF stack = <<>> THEN <<stack, top_urls \o urls>>
    ELSE <<[stack EXCEPT ![Len(stack)].urls = @ \o urls], top_urls>>

\* _get_sitemap_urls: read robots.txt and list the sitemaps to parse
\* (lines 202-222)
get_sitemap_urls_begin ==
    /\ sm_pc = "idle"
    /\ sm_pc' = "run"
    /\ sm_pending' = (IF config.respect_robots_txt /\ site.robots.status = 200
                      THEN site.robots.sitemaps ELSE <<>>) \o common_sitemaps
    /\ sm_stack' = <<>>
    /\ sitemap_urls' = <<>>
    /\ UNCHANGED <<crawlVars, rateVars, featureVars, filterVars, reuseVars, jobVars, pairVars>>

\* one call of _parse_sitemap up to its first nested call or its return
\* (lines 238-261): the request, raise_for_status, the XML parse and the
\* root tag; made by _get_sitemap_urls or by the innermost call in progress
parse_sitemap_call ==
    /\ sm_pc = "run"
    /\ IF sm_stack = <<>> THEN sm_pending # <<>>
       ELSE sm_stack[Len(sm_stack)].children # <<>>
    /\ LET sitemap_url == IF sm_stack = <<>> THEN Head(sm_pending)
                          ELSE Head(sm_stack[Len(sm_stack)].children)
           doc == site.docs[sitemap_url]
           caller == IF sm_stack = <<>> THEN sm_stack
                     ELSE [sm_stack EXCEPT ![Len(sm_stack)].children = Tail(@)]
           returned ==
               IF recursion_error(Len(sm_stack)) \/ doc.kind = "unreachable" THEN <<>>
               ELSE IF doc.status >= 400 THEN <<>>
               ELSE IF doc.kind = "malformed" THEN <<>>
               ELSE doc.urls
           calls_deeper ==
               /\ ~recursion_error(Len(sm_stack))
               /\ doc.kind = "sitemapindex" /\ doc.status < 400
       IN  /\ sm_pending' = IF sm_stack = <<>> THEN Tail(sm_pending) ELSE sm_pending
           /\ IF calls_deeper
              THEN /\ sm_stack' = push(caller, Frame(doc.sitemaps, <<>>))
                   /\ UNCHANGED sitemap_urls
              ELSE /\ sm_stack' = extend_caller(caller, sitemap_urls, returned)[1]
                   /\ sitemap_urls' = extend_caller(caller, sitemap_urls, returned)[2]
    /\ UNCHANGED sm_pc
    /\ UNCHANGED <<crawlVars, rateVars, featureVars, filterVars, reuseVars, jobVars, pairVars>>

\* "return urls" of a call that went through all the children of its index
\* (line 257)
parse_sitemap_return ==
    /\ sm_pc = "run"
    /\ sm_stack # <<>> /\ sm_stack[Len(sm_stack)].children = <<>>
    /\ LET callers == SubSeq(sm_stack, 1, Len(sm_stack) - 1)
           urls == sm_stack[Len(sm_stack)].urls
       IN  /\ sm_stack' = extend_caller(callers, sitemap_urls, urls)[1]
           /\ sitemap_urls' = extend_caller(callers, sitemap_urls, urls)[2]
    /\ UNCHANGED <<sm_pc, sm_pending>>
    /\ UNCHANGED <<crawlVars, rateVars, featureVars, filterVars, reuseVars, jobVars, pairVars>>

\* "return sitemap_urls" (line 232)
get_sitemap_urls_return ==
    /\ sm_pc = "run" /\ sm_stack = <<>> /\ sm_pending = <<>>
    /\ sm_pc' = "done"
    /\ UNCHANGED <<sm_pending, sm_stack, sitemap_urls>>
    /\ UNCHANGED <<crawlVars, rateVars, featureVars, filterVars, reuseVars, jobVars, pairVars>>

----------------------------------------------------------------------------
(* AdvancedSiteCrawler.crawl *)

\* off-by-one in the page ceiling
loop_continues_upto(cfg, queue, results) ==
    queue # <<>> /\ Len(results) <= cfg.max_pages

\* the while condition of both crawl loops
loop_continues(cfg, queue, results) ==
    queue # <<>> /\ Len(results) < cfg.max_pages

\* url_queue.pop(0) / url_queue.popleft(): the entry taken and the queue left
front(queue) == Head(queue)

\* the front entry read but not removed
popped_peek(queue) == queue

popped(queue) == Tail(queue)

\* the visited check left out
already_visited_never(visited, url) == FALSE

\* "if url in visited_urls: continue"
already_visited(visited, url) == url \in visited

\* new entries put in front of the frontier
enqueue_front(queue, entries) == entries \o queue

\* url_queue.append(...) for each new entry, in order
enqueue(queue, entries) == queue \o entries

\* off-by-one in the depth ceiling
follows_links_upto(cfg, depth) == depth <= cfg.max_depth

\* "if depth < self.config.max_depth": links of this page are followed
follows_links(cfg, depth) == depth < cfg.max_depth

\* the failure not counted
count_failure_none(st) == st

\* self.stats['failed_pages'] += 1
count_failure(st) == [st EXCEPT !.failed_pages = @ + 1]

FrontierEntry(u, d, src) == [url |-> u, depth |-> d, source |-> src]

NoEntry == [url |-> <<>>, depth |-> 0, source |-> "none"]
NoPage == [ok |-> FALSE, links |-> <<>>]
ZeroStats == [total_pages |-> 0, successful_pages |-> 0, failed_pages |-> 0]

\* an outbound request: its kind, whether it is the crawl's first, and whether
\* a rate-limiter wait ran between the request before it and itself
Request(k, f, w) == [kind |-> k, first |-> f, waited |-> w]
NoRequest == Request("none", FALSE, FALSE)

\* what the caller gets: kind is "none" while the call runs
Outcome(k, v) == [kind |-> k, value |-> v]
NoOutcome == Outcome("none", <<>>)

\* the frontier entries made from a list of URLs that pass the filter
Enqueued(cfg, visited, urls, base_domain, d, src) ==
    LET kept == SelectSeq(urls, LAMBDA u : should_crawl_url(cfg, visited, u, base_domain))
    IN  [i \in 1..Len(kept) |-> FrontierEntry(kept[i], d, src)]

\* crawl(): clear the per-crawl state and seed the frontier (lines 345-359)
crawl_begin(b) ==
    /\ impl = "advanced" /\ pc = "idle"
    /\ base_url' = b
    /\ visited_urls' = {}
    /\ crawl_results' = <<>>
    /\ url_queue' = <<FrontierEntry(b, 0, "initial")>>
    /\ pc' = IF config.use_sitemap THEN "sitemap" ELSE "loop"
    /\ outbound' = NoRequest /\ slept' = FALSE /\ outcome' = NoOutcome
    /\ UNCHANGED <<impl, config, site, stats, current, page_data>>
    /\ UNCHANGED <<rateVars, featureVars, filterVars, reuseVars, sitemapVars, jobVars, pairVars>>

\* a list object in the hands of a caller: which object it is and what it
\* held when crawl() returned it
Held(r, v) == [ref |-> r, at_return |-> v]
NoHeld == Held("none", <<>>)

\* what a list object holds now
contents(ref) == IF ref = "self.crawl_results" THEN crawl_results ELSE <<>>

\* get_crawl_stats(): a copy of the counters of self.stats (lines 425-430)
get_crawl_stats == stats

\* crawl() called again on an instance whose crawl() has returned
\* self.crawl_results (line 419): the same three containers are cleared and
\* the frontier is seeded (lines 345-359); self.stats keeps its counters
crawl_again(b) ==
    /\ impl = "advanced" /\ pc = "done" /\ held = NoHeld
    /\ held' = Held("self.crawl_results", outcome.value)
    /\ base_url' = b
    /\ visited_urls' = {}
    /\ crawl_results' = <<>>
    /\ url_queue' = <<FrontierEntry(b, 0, "initial")>>
    /\ pc' = IF config.use_sitemap THEN "sitemap" ELSE "loop"
    /\ outbound' = NoRequest /\ slept' = FALSE /\ outcome' = NoOutcome
    /\ UNCHANGED <<impl, config, site, stats, current, page_data>>
    /\ UNCHANGED <<rateVars, featureVars, filterVars, sitemapVars, jobVars, pairVars>>

\* crawl(): seed the sitemap URLs that pass the filter (lines 362-370).
\* _get_sitemap_urls requests robots.txt (if respected) and then at least the
\* three common sitemaps through session.get, with no _rate_limit() in between
crawl_sitemap ==
    /\ impl = "advanced" /\ pc = "sitemap"
    /\ url_queue' = enqueue(url_queue,
           Enqueued(config, visited_urls, get_sitemap_urls(config, site),
                    Netloc(base_url), 0, "sitemap"))
    /\ pc' = "loop"
    /\ outbound' = Request("sitemap", FALSE, FALSE)
    /\ UNCHANGED <<impl, base_url, config, site, visited_urls, crawl_results,
                   stats, current, page_data, slept, outcome>>
    /\ UNCHANGED <<rateVars, featureVars, filterVars, reuseVars, sitemapVars, jobVars, pairVars>>

\* crawl(): the loop test, the pop and the visited check (lines 373-382)
crawl_loop ==
    /\ impl = "advanced" /\ pc = "loop"
    /\ IF loop_continues(config, url_queue, crawl_results)
       THEN /\ url_queue' = popped(url_queue)
            /\ IF already_visited(visited_urls, front(url_queue).url)
               THEN /\ pc' = "loop"
                    /\ UNCHANGED <<visited_urls, stats, current>>
               ELSE /\ visited_urls' = visited_urls \cup {front(url_queue).url}
                    /\ stats' = [stats EXCEPT !.total_pages = @ + 1]
                    /\ current' = front(url_queue)
                    /\ pc' = "fetch"
            /\ UNCHANGED outcome
       ELSE /\ pc' = "done"
            /\ outcome' = Outcome("returned", crawl_results)
            /\ UNCHANGED <<url_queue, visited_urls, stats, current>>
    /\ UNCHANGED <<impl, base_url, config, site, crawl_results, page_data,
                   outbound, slept>>
    /\ UNCHANGED <<rateVars, featureVars, filterVars, reuseVars, sitemapVars, jobVars, pairVars>>

\* _fetch_page: _rate_limit(), then session.get; a page with its links, or
\* None on any exception (lines 305-331)
fetch_page ==
    /\ impl = "advanced" /\ pc = "fetch"
    /\ \E ok \in BOOLEAN, links \in PlainLinkLists :
           page_data' = IF ok THEN [ok |-> TRUE, links |-> links] ELSE NoPage
    /\ outbound' = Request("page", outbound.kind = "none", TRUE)
    /\ pc' = "handle"
    /\ UNCHANGED <<impl, base_url, config, site, visited_urls, url_queue,
                   crawl_results, stats, current, slept, outcome>>
    /\ UNCHANGED <<rateVars, featureVars, filterVars, reuseVars, sitemapVars, jobVars, pairVars>>

\* crawl(): store the result and enqueue the links, or count the failure
\* (lines 386-412)
crawl_handle ==
    /\ impl = "advanced" /\ pc = "handle"
    /\ IF page_data.ok
       THEN /\ stats' = [stats EXCEPT !.successful_pages = @ + 1]
            /\ crawl_results' = Append(crawl_results, current)
            /\ url_queue' =
                   IF follows_links(config, current.depth)
                   THEN enqueue(url_queue,
                        Enqueued(config, visited_urls, page_data.links,
                                 Netloc(base_url), current.depth + 1, "link"))
                   ELSE url_queue
       ELSE /\ stats' = count_failure(stats)
            /\ UNCHANGED <<crawl_results, url_queue>>
    /\ pc' = "loop"
    /\ page_data' = NoPage
    /\ UNCHANGED <<impl, base_url, config, site, visited_urls, current,
                   outbound, slept, outcome>>
    /\ UNCHANGED <<rateVars, featureVars, filterVars, reuseVars, sitemapVars, jobVars, pairVars>>

----------------------------------------------------------------------------
(* RecursiveCrawlerService._crawl_sync *)

QueueEntry(u, d) == [url |-> u, depth |-> d]

\* RecursiveCrawlerService._is_same_domain
service_is_same_domain(base_domain, url) ==
    base_domain = Netloc(url) \/ EndsWith(Netloc(url), <<".">> \o base_domain)

valid_extensions == {<<".", "h", "t", "m", "l">>, <<".", "h", "t", "m">>,
                     <<".", "p", "h", "p">>, <<".", "a", "s", "p">>,
                     <<".", "a", "s", "p", "x">>, <<".", "j", "s", "p">>,
                     <<".", "p", "y">>}

invalid_extensions == {<<".", "c", "s", "s">>, <<".", "j", "s">>,
                       <<".", "p", "n", "g">>, <<".", "j", "p", "g">>,
                       <<".", "j", "p", "e", "g">>, <<".", "g", "i", "f">>,
                       <<".", "p", "d", "f">>, <<".", "z", "i", "p">>,
                       <<".", "d", "o", "c">>, <<".", "d", "o", "c", "x">>,
                       <<".", "x", "m", "l">>, <<".", "j", "s", "o", "n">>}

\* RecursiveCrawlerService._is_valid_url
is_valid_url(url) ==
    LET path == Lower(Path(url))
    IN  IF Contains(path, <<".">>)
        THEN IF \E ext \in valid_extensions : EndsWith(path, ext) THEN TRUE
             ELSE IF \E ext \in invalid_extensions : EndsWith(path, ext) THEN FALSE
             ELSE TRUE
        ELSE TRUE

\* new_urls of one page (lines 85-106): the links are tested against the
\* visited set and the queue length as they are before the page is recorded
new_urls(cfg, visited, queue, links, base_domain, depth) ==
    LET kept == SelectSeq(links, LAMBDA l :
                    /\ service_is_same_domain(base_domain, l)
                    /\ is_valid_url(l)
                    /\ l \notin visited
                    /\ Len(queue) < cfg.max_pages * 2
                    /\ StripFragment(l) \notin visited)
    IN  [i \in 1..Len(kept) |-> QueueEntry(StripFragment(kept[i]), depth + 1)]

\* lines 44-47
crawl_sync_begin(b) ==
    /\ impl = "recursive" /\ pc = "idle"
    /\ base_url' = b
    /\ visited_urls' = {}
    /\ crawl_results' = <<>>
    /\ url_queue' = <<QueueEntry(b, 0)>>
    /\ pc' = "loop"
    /\ outbound' = NoRequest /\ slept' = FALSE /\ outcome' = NoOutcome
    /\ UNCHANGED <<impl, config, site, stats, current, page_data>>
    /\ UNCHANGED <<rateVars, featureVars, filterVars, reuseVars, sitemapVars, jobVars, pairVars>>

\* the loop test, the pop, the visited and depth check (lines 55-60)
crawl_sync_loop ==
    /\ impl = "recursive" /\ pc = "loop"
    /\ IF loop_continues(config, url_queue, crawl_results)
       THEN /\ url_queue' = popped(url_queue)
            /\ IF \/ already_visited(visited_urls, front(url_queue).url)
                  \/ front(url_queue).depth > config.max_depth
               THEN /\ pc' = "loop"
                    /\ UNCHANGED current
               ELSE /\ current' = front(url_queue)
                    /\ pc' = "fetch"
            /\ UNCHANGED outcome
       ELSE /\ pc' = "done"
            /\ outcome' = Outcome("returned", crawl_results)
            /\ UNCHANGED <<url_queue, current>>
    /\ UNCHANGED <<impl, base_url, config, site, visited_urls, crawl_results,
                   stats, page_data, outbound, slept>>
    /\ UNCHANGED <<rateVars, featureVars, filterVars, reuseVars, sitemapVars, jobVars, pairVars>>

\* requests.get and the parse of the page, which may raise (lines 66-109)
crawl_sync_fetch ==
    /\ impl = "recursive" /\ pc = "fetch"
    /\ \E ok \in BOOLEAN, links \in LinkLists :
           page_data' = IF ok THEN [ok |-> TRUE, links |-> links] ELSE NoPage
    /\ outbound' = Request("page", outbound.kind = "none", slept)
    /\ slept' = FALSE
    /\ pc' = "handle"
    /\ UNCHANGED <<impl, base_url, config, site, visited_urls, url_queue,
                   crawl_results, stats, current, outcome>>
    /\ UNCHANGED <<rateVars, featureVars, filterVars, reuseVars, sitemapVars, jobVars, pairVars>>

\* record the page, enqueue its new URLs and sleep (lines 111-130), or the
\* except clause, which goes on without sleeping (lines 132-135)
crawl_sync_handle ==
    /\ impl = "recursive" /\ pc = "handle"
    /\ visited_urls' = visited_urls \cup {current.url}
    /\ IF page_data.ok
       THEN /\ crawl_results' = Append(crawl_results, QueueEntry(current.url, current.depth))
            /\ url_queue' = enqueue(url_queue,
                   SelectSeq(new_urls(config, visited_urls, url_queue, page_data.links,
                                      Netloc(base_url), current.depth),
                             LAMBDA e : e.url \notin visited_urls'))
       ELSE UNCHANGED <<crawl_results, url_queue>>
    /\ slept' = page_data.ok
    /\ pc' = "loop"
    /\ page_data' = NoPage
    /\ UNCHANGED <<impl, base_url, config, site, stats, current, outbound, outcome>>
    /\ UNCHANGED <<rateVars, featureVars, filterVars, reuseVars, sitemapVars, jobVars, pairVars>>

----------------------------------------------------------------------------
(* An exception that escapes the traversal loop: a MemoryError of an append, *)
(* a TypeError of a ceiling that is not a number, ...                        *)

\* a handler that lets the exception go on to the caller
crawl_except_reraise == Outcome("raised", <<>>)

\* crawl(): except Exception -> log, return [] (lines 421-423)
crawl_except == Outcome("returned", <<>>)

\* the loop test, the pop, the building and the storing of a result are inside
\* the try block of crawl() and outside every inner handler
crawl_abort ==
    /\ impl = "advanced" /\ pc \in {"loop", "handle"}
    /\ outcome' = crawl_except
    /\ pc' = "aborted"
    /\ UNCHANGED <<impl, base_url, config, site, visited_urls, url_queue,
                   crawl_results, stats, current, page_data, outbound, slept>>
    /\ UNCHANGED <<rateVars, featureVars, filterVars, reuseVars, sitemapVars, jobVars, pairVars>>

\* _fallback_crawl: one page for the start URL, the fetched one or, when the
\* fetch fails too, a placeholder titled "crawl failed" (lines 169-224)
fallback_crawl(url) ==
    {<<[url |-> url, depth |-> 0, title |-> "page"]>>,
     <<[url |-> url, depth |-> 0, title |-> "failure"]>>}

\* crawl_website(): except Exception -> return await _fallback_crawl(start_url)
\* (lines 36-40); in _crawl_sync only the loop test, the pop and the visited
\* and depth check are outside the per-page handler (lines 55-60)
crawl_website_abort ==
    /\ impl = "recursive" /\ pc = "loop"
    /\ \E v \in fallback_crawl(base_url) : outcome' = Outcome("returned", v)
    /\ pc' = "aborted"
    /\ UNCHANGED <<impl, base_url, config, site, visited_urls, url_queue,
                   crawl_results, stats, current, page_data, outbound, slept>>
    /\ UNCHANGED <<rateVars, featureVars, filterVars, reuseVars, sitemapVars, jobVars, pairVars>>

----------------------------------------------------------------------------
(* Rate limiting *)

burst_size == 5

\* time.sleep(d): the clock after a sleep of at least d ticks that starts at t
Slept(t, d) == {t + d + x : x \in 0..MaxOversleep}

\* the caller works between two calls: time passes
elapse ==
    /\ rl_kind # "none" /\ now < MaxTime
    /\ now' = now + 1
    /\ UNCHANGED <<rl_kind, min_interval, last_request_time, request_times,
                   prev_return, last_return>>
    /\ UNCHANGED <<crawlVars, featureVars, filterVars, reuseVars, sitemapVars, jobVars, pairVars>>

\* the deque after the append and the removal of the records older than 1 s
Pruned(times, current_time) ==
    SelectSeq(Append(times, current_time), LAMBDA x : ~(current_time - x > TicksPerSecond))

\* RateLimiter.wait (lines 51-86)
wait ==
    /\ rl_kind = "RateLimiter" /\ now <= MaxTime
    /\ LET current_time == now
           time_since_last == current_time - last_request_time
           sleep_time == IF time_since_last < min_interval
                         THEN min_interval - time_since_last ELSE 0
           times == Pruned(request_times, current_time)
           required_wait == IF Len(times) > burst_size
                            THEN TicksPerSecond - (current_time - times[1]) ELSE 0
       IN  /\ \E t1 \in (IF sleep_time > 0 THEN Slept(now, sleep_time) ELSE {now}) :
               now' \in (IF required_wait > 0 THEN Slept(t1, required_wait) ELSE {t1})
           /\ request_times' = times
           /\ last_request_time' = current_time
    /\ prev_return' = last_return
    /\ last_return' = now'
    /\ UNCHANGED <<rl_kind, min_interval>>
    /\ UNCHANGED <<crawlVars, featureVars, filterVars, reuseVars, sitemapVars, jobVars, pairVars>>

\* AdvancedSiteCrawler._rate_limit (lines 128-135) and BaseCrawler._rate_limit
\* (lines 43-50), which are the same code
rate_limit ==
    /\ rl_kind \in {"advanced", "base"} /\ now <= MaxTime
    /\ LET current_time == now
           time_since_last == current_time - last_request_time
       IN  now' \in (IF time_since_last < min_interval
                     THEN Slept(now, min_interval - time_since_last) ELSE {now})
    /\ last_request_time' = now'
    /\ prev_return' = last_return
    /\ last_return' = now'
    /\ UNCHANGED <<rl_kind, min_interval, request_times>>
    /\ UNCHANGED <<crawlVars, featureVars, filterVars, reuseVars, sitemapVars, jobVars, pairVars>>

----------------------------------------------------------------------------
(* Text primitives and difflib.SequenceMatcher *)

\* exact fractions stand for the floats of the matcher
Rat(n, d) == [n |-> n, d |-> d]
RatPlus(x, y) == Rat(x.n * y.d + y.n * x.d, x.d * y.d)
RatGt(x, y) == x.n * y.d > y.n * x.d
RatEq(x, y) == x.n * y.d = y.n * x.d
RatMin(x, y) == IF RatGt(x, y) THEN y ELSE x

\* the whitespace str.strip() and str.split() look for, among the characters
\* the model uses
Whitespace == {" "}

RECURSIVE LStrip(_)
LStrip(s) == IF s # <<>> /\ Head(s) \in Whitespace THEN LStrip(Tail(s)) ELSE s

RECURSIVE RStrip(_)
RStrip(s) ==
    IF s # <<>> /\ s[Len(s)] \in Whitespace THEN RStrip(SubSeq(s, 1, Len(s) - 1)) ELSE s

\* s.strip()
Strip(s) == RStrip(LStrip(s))

\* set(s.split()): the maximal runs of characters that are not whitespace
Words(s) ==
    {SubSeq(s, p[1], p[2]) : p \in
        {q \in (1..Len(s)) \X (1..Len(s)) :
            /\ q[1] <= q[2]
            /\ \A k \in q[1]..q[2] : s[k] \notin Whitespace
            /\ (q[1] = 1 \/ s[q[1] - 1] \in Whitespace)
            /\ (q[2] = Len(s) \/ s[q[2] + 1] \in Whitespace)}}

\* length of the block of equal characters that starts at a[i] and b[j] and
\* stays inside a[..ahi] and b[..bhi]
RECURSIVE RunLen(_, _, _, _, _, _)
RunLen(a, b, i, j, ahi, bhi) ==
    IF i <= ahi /\ j <= bhi /\ a[i] = b[j]
    THEN 1 + RunLen(a, b, i + 1, j + 1, ahi, bhi)
    ELSE 0

\* difflib.SequenceMatcher.find_longest_match on a[alo..ahi] and b[blo..bhi]
\* (no junk): a longest block, of those the one that starts earliest in a, and
\* of those the one that starts earliest in b
find_longest_match(a, b, alo, ahi, blo, bhi) ==
    LET run == [p \in (alo..ahi) \X (blo..bhi) |-> RunLen(a, b, p[1], p[2], ahi, bhi)]
        longest == CHOOSE p \in DOMAIN run :
                       \A q \in DOMAIN run :
                           \/ run[q] < run[p]
                           \/ run[q] = run[p] /\ (p[1] < q[1] \/ (p[1] = q[1] /\ p[2] <= q[2]))
    IN  [i |-> longest[1], j |-> longest[2], size |-> run[longest]]

\* the sum of the sizes of SequenceMatcher.get_matching_blocks(): the longest
\* block, then the same to its left and to its right
RECURSIVE matches(_, _, _, _, _, _)
matches(a, b, alo, ahi, blo, bhi) ==
    IF alo > ahi \/ blo > bhi THEN 0
    ELSE LET m == find_longest_match(a, b, alo, ahi, blo, bhi)
         IN  IF m.size = 0 THEN 0
             ELSE m.size + matches(a, b, alo, m.i - 1, blo, m.j - 1)
                         + matches(a, b, m.i + m.size, ahi, m.j + m.size, bhi)

\* SequenceMatcher(None, a, b).ratio() for a and b not both empty
ratio(a, b) == Rat(2 * matches(a, b, 1, Len(a), 1, Len(b)), Len(a) + Len(b))

----------------------------------------------------------------------------
(* FeatureDetectionService: the cross-source feature matcher *)

\* feature_synonyms (lines 388-420); a character outside ASCII is written as its
\* code point, "uCC44" for U+CC44
feature_synonyms == <<
    [main |-> <<"c", "h", "a", "t">>,
     synonyms |-> <<<<"uCC44", "uD305">>, <<"uBA54", "uC2DC", "uC9C0">>, <<"uB300", "uD654">>,
         <<"m", "e", "s", "s", "a", "g", "e">>,
         <<"m", "e", "s", "s", "a", "g", "i", "n", "g">>,
         <<"uCEE4", "uBBA4", "uB2C8", "uCF00", "uC774", "uC158">>>>],
    [main |-> <<"m", "e", "s", "s", "a", "g", "e">>,
     synonyms |-> <<<<"uBA54", "uC2DC", "uC9C0">>, <<"uCC44", "uD305">>, <<"uB300", "uD654">>,
         <<"c", "h", "a", "t">>, <<"m", "e", "s", "s", "a", "g", "i", "n", "g">>,
         <<"uCEE4", "uBBA4", "uB2C8", "uCF00", "uC774", "uC158">>>>],
    [main |-> <<"f", "i", "l", "e">>,
     synonyms |-> <<<<"uD30C", "uC77C">>, <<"uBB38", "uC11C">>,
         <<"d", "o", "c", "u", "m", "e", "n", "t">>, <<"u", "p", "l", "o", "a", "d">>,
         <<"uCCA8", "uBD80">>>>],
    [main |-> <<"u", "p", "l", "o", "a", "d">>,
     synonyms |-> <<<<"uC5C5", "uB85C", "uB4DC">>, <<"uD30C", "uC77C">>,
         <<"u", "p", "l", "o", "a", "d">>, <<"f", "i", "l", "e">>, <<"uCCA8", "uBD80">>>>],
    [main |-> <<"d", "o", "w", "n", "l", "o", "a", "d">>,
     synonyms |-> <<<<"uB2E4", "uC6B4", "uB85C", "uB4DC">>,
         <<"d", "o", "w", "n", "l", "o", "a", "d">>, <<"uD30C", "uC77C">>,
         <<"uC800", "uC7A5">>>>],
    [main |-> <<"s", "e", "a", "r", "c", "h">>,
     synonyms |-> <<<<"uAC80", "uC0C9">>, <<"s", "e", "a", "r", "c", "h">>,
         <<"f", "i", "n", "d">>, <<"uCC3E", "uAE30">>,
         <<"uAC80", "uC0C9", "uAE30", "uB2A5">>>>],
    [main |-> <<"s", "e", "t", "t", "i", "n", "g">>,
     synonyms |-> <<<<"uC124", "uC815">>, <<"s", "e", "t", "t", "i", "n", "g">>,
         <<"c", "o", "n", "f", "i", "g">>,
         <<"c", "o", "n", "f", "i", "g", "u", "r", "a", "t", "i", "o", "n">>,
         <<"uAD00", "uB9AC">>>>],
    [main |-> <<"n", "o", "t", "i", "f", "i", "c", "a", "t", "i", "o", "n">>,
     synonyms |-> <<<<"uC54C", "uB9BC">>,
         <<"n", "o", "t", "i", "f", "i", "c", "a", "t", "i", "o", "n">>,
         <<"a", "l", "e", "r", "t">>, <<"uC54C", "uB9BC">>, <<"uACF5", "uC9C0">>>>],
    [main |-> <<"s", "e", "c", "u", "r", "i", "t", "y">>,
     synonyms |-> <<<<"uBCF4", "uC548">>, <<"s", "e", "c", "u", "r", "i", "t", "y">>,
         <<"s", "a", "f", "e", "t", "y">>,
         <<"p", "r", "o", "t", "e", "c", "t", "i", "o", "n">>, <<"uC548", "uC804">>>>],
    [main |-> <<"a", "p", "i">>,
     synonyms |-> <<<<"a", "p", "i">>, <<"uC5F0", "uB3D9">>,
         <<"i", "n", "t", "e", "g", "r", "a", "t", "i", "o", "n">>,
         <<"i", "n", "t", "e", "r", "f", "a", "c", "e">>, <<"uD1B5", "uD569">>>>],
    [main |-> <<"m", "o", "b", "i", "l", "e">>,
     synonyms |-> <<<<"uBAA8", "uBC14", "uC77C">>, <<"m", "o", "b", "i", "l", "e">>,
         <<"p", "h", "o", "n", "e">>, <<"uC2A4", "uB9C8", "uD2B8", "uD3F0">>,
         <<"uD734", "uB300", "uD3F0">>>>],
    [main |-> <<"d", "e", "s", "k", "t", "o", "p">>,
     synonyms |-> <<<<"uB370", "uC2A4", "uD06C", "uD1B1">>,
         <<"d", "e", "s", "k", "t", "o", "p">>, <<"p", "c">>, <<"uCEF4", "uD4E8", "uD130">>,
         <<"p", "c", "uC571">>>>],
    [main |-> <<"v", "o", "i", "c", "e">>,
     synonyms |-> <<<<"uC74C", "uC131">>, <<"v", "o", "i", "c", "e">>,
         <<"a", "u", "d", "i", "o">>, <<"uD1B5", "uD654">>,
         <<"uC74C", "uC131", "uD1B5", "uD654">>>>],
    [main |-> <<"v", "i", "d", "e", "o">>,
     synonyms |-> <<<<"uBE44", "uB514", "uC624">>, <<"v", "i", "d", "e", "o">>,
         <<"uD654", "uC0C1">>, <<"uC601", "uC0C1">>, <<"uD654", "uC0C1", "uD1B5", "uD654">>>>],
    [main |-> <<"m", "e", "e", "t", "i", "n", "g">>,
     synonyms |-> <<<<"uD68C", "uC758">>, <<"m", "e", "e", "t", "i", "n", "g">>,
         <<"c", "o", "n", "f", "e", "r", "e", "n", "c", "e">>,
         <<"uD654", "uC0C1", "uD68C", "uC758">>, <<"uCEE8", "uD37C", "uB7F0", "uC2A4">>>>],
    [main |-> <<"b", "o", "t">>,
     synonyms |-> <<<<"uBD07">>, <<"b", "o", "t">>, <<"uC790", "uB3D9", "uD654">>,
         <<"a", "u", "t", "o", "m", "a", "t", "i", "o", "n">>, <<"uC790", "uB3D9">>>>],
    [main |-> <<"p", "e", "r", "m", "i", "s", "s", "i", "o", "n">>,
     synonyms |-> <<<<"uAD8C", "uD55C">>, <<"p", "e", "r", "m", "i", "s", "s", "i", "o", "n">>,
         <<"a", "c", "c", "e", "s", "s">>,
         <<"a", "u", "t", "h", "o", "r", "i", "z", "a", "t", "i", "o", "n">>,
         <<"uC811", "uADFC">>>>],
    [main |-> <<"b", "a", "c", "k", "u", "p">>,
     synonyms |-> <<<<"uBC31", "uC5C5">>, <<"b", "a", "c", "k", "u", "p">>,
         <<"uBCF5", "uC6D0">>, <<"r", "e", "s", "t", "o", "r", "e">>, <<"uC800", "uC7A5">>>>],
    [main |-> <<"s", "y", "n", "c">>,
     synonyms |-> <<<<"uB3D9", "uAE30", "uD654">>, <<"s", "y", "n", "c">>,
         <<"s", "y", "n", "c", "h", "r", "o", "n", "i", "z", "a", "t", "i", "o", "n">>,
         <<"uB3D9", "uAE30">>>>],
    [main |-> <<"a", "n", "a", "l", "y", "t", "i", "c", "s">>,
     synonyms |-> <<<<"uBD84", "uC11D">>, <<"a", "n", "a", "l", "y", "t", "i", "c", "s">>,
         <<"uD1B5", "uACC4">>, <<"s", "t", "a", "t", "i", "s", "t", "i", "c", "s">>,
         <<"uB370", "uC774", "uD130">>>>],
    [main |-> <<"m", "o", "n", "i", "t", "o", "r", "i", "n", "g">>,
     synonyms |-> <<<<"uBAA8", "uB2C8", "uD130", "uB9C1">>,
         <<"m", "o", "n", "i", "t", "o", "r", "i", "n", "g">>, <<"uAC10", "uC2DC">>,
         <<"uCD94", "uC801">>,
         <<"uB370", "uC774", "uD130", " ", "uBAA8", "uB2C8", "uD130", "uB9C1">>>>],
    [main |-> <<"d", "a", "t", "a">>,
     synonyms |-> <<<<"uB370", "uC774", "uD130">>, <<"d", "a", "t", "a">>,
         <<"uC815", "uBCF4">>, <<"uC790", "uB8CC">>>>],
    [main |-> <<"r", "e", "p", "o", "r", "t">>,
     synonyms |-> <<<<"uB9AC", "uD3EC", "uD2B8">>, <<"r", "e", "p", "o", "r", "t">>,
         <<"uBCF4", "uACE0", "uC11C">>, <<"uD1B5", "uACC4">>>>],
    [main |-> <<"d", "a", "s", "h", "b", "o", "a", "r", "d">>,
     synonyms |-> <<<<"uB300", "uC2DC", "uBCF4", "uB4DC">>,
         <<"d", "a", "s", "h", "b", "o", "a", "r", "d">>, <<"uD604", "uD669">>,
         <<"uAC1C", "uC694">>>>],
    [main |-> <<"u", "s", "e", "r">>,
     synonyms |-> <<<<"uC0AC", "uC6A9", "uC790">>, <<"u", "s", "e", "r">>,
         <<"uACC4", "uC815">>, <<"a", "c", "c", "o", "u", "n", "t">>, <<"uBA64", "uBC84">>>>],
    [main |-> <<"t", "e", "a", "m">>,
     synonyms |-> <<<<"uD300">>, <<"t", "e", "a", "m">>, <<"uADF8", "uB8F9">>,
         <<"g", "r", "o", "u", "p">>, <<"uC870", "uC9C1">>>>],
    [main |-> <<"c", "h", "a", "n", "n", "e", "l">>,
     synonyms |-> <<<<"uCC44", "uB110">>, <<"c", "h", "a", "n", "n", "e", "l">>, <<"uBC29">>,
         <<"r", "o", "o", "m">>, <<"uACF5", "uAC04">>>>],
    [main |-> <<"s", "e", "r", "v", "e", "r">>,
     synonyms |-> <<<<"uC11C", "uBC84">>, <<"s", "e", "r", "v", "e", "r">>,
         <<"uC6CC", "uD06C", "uC2A4", "uD398", "uC774", "uC2A4">>,
         <<"w", "o", "r", "k", "s", "p", "a", "c", "e">>>>],
    [main |-> <<"i", "n", "t", "e", "g", "r", "a", "t", "i", "o", "n">>,
     synonyms |-> <<<<"uD1B5", "uD569">>,
         <<"i", "n", "t", "e", "g", "r", "a", "t", "i", "o", "n">>, <<"uC5F0", "uB3D9">>,
         <<"uC5F0", "uACB0">>, <<"c", "o", "n", "n", "e", "c", "t">>>>],
    [main |-> <<"a", "u", "t", "o", "m", "a", "t", "i", "o", "n">>,
     synonyms |-> <<<<"uC790", "uB3D9", "uD654">>,
         <<"a", "u", "t", "o", "m", "a", "t", "i", "o", "n">>, <<"uC790", "uB3D9">>,
         <<"a", "u", "t", "o">>, <<"uBD07">>>>],
    [main |-> <<"w", "o", "r", "k", "f", "l", "o", "w">>,
     synonyms |-> <<<<"uC6CC", "uD06C", "uD50C", "uB85C", "uC6B0">>,
         <<"w", "o", "r", "k", "f", "l", "o", "w">>, <<"uD504", "uB85C", "uC138", "uC2A4">>,
         <<"p", "r", "o", "c", "e", "s", "s">>, <<"uD750", "uB984">>>>]
>>

\* a dictionary lookup that tries the keys only
mentions_key_only(entry, text) == Contains(text, entry.main)

\* main_word in text or any(syn in text for syn in synonyms) (lines 427-428)
mentions(entry, text) ==
    \/ Contains(text, entry.main)
    \/ \E k \in 1..Len(entry.synonyms) : Contains(text, entry.synonyms[k])

\* _check_synonym_similarity: 0.4 when both texts hold a word of one entry of
\* the dictionary, its key or one of its synonyms (lines 385-431)
check_synonym_similarity(s1, s2) ==
    IF \E e \in 1..Len(feature_synonyms) :
           /\ mentions(feature_synonyms[e], Lower(s1))
           /\ mentions(feature_synonyms[e], Lower(s2))
    THEN Rat(4, 10)
    ELSE Rat(0, 1)

\* _calculate_similarity (lines 342-383)
calculate_similarity(s1, s2) ==
    LET t1 == Strip(Lower(s1))
        t2 == Strip(Lower(s2))
        keywords1 == Words(t1)
        keywords2 == Words(t2)
        similarity == ratio(t1, t2)
        keyword_similarity ==
            Rat(Cardinality(keywords1 \cap keywords2), Cardinality(keywords1 \cup keywords2))
        blend ==
            IF keywords1 # {} /\ keywords2 # {}
            THEN Rat(3 * similarity.n * keyword_similarity.d
                         + 7 * keyword_similarity.n * similarity.d,
                     10 * similarity.d * keyword_similarity.d)
            ELSE similarity
    IN  IF t1 = t2 THEN Rat(1, 1)
        ELSE IF Contains(t2, t1) \/ Contains(t1, t2) THEN Rat(9, 10)
        ELSE RatMin(Rat(1, 1), RatPlus(blend, check_synonym_similarity(t1, t2)))

\* the names of the modelled features: "chat", U+C2E4 U+C2DC U+AC04 " "
\* U+CC44 U+D305 (live chat), "Chat ", "tide", "diet", "file upload",
\* "upload file", "xyz" and the empty name
N_chat == <<"c", "h", "a", "t">>
N_live_chat == <<"uC2E4", "uC2DC", "uAC04", " ", "uCC44", "uD305">>
N_Chat == <<"C", "h", "a", "t", " ">>
N_tide == <<"t", "i", "d", "e">>
N_diet == <<"d", "i", "e", "t">>
N_file_upload == <<"f", "i", "l", "e", " ", "u", "p", "l", "o", "a", "d">>
N_upload_file == <<"u", "p", "l", "o", "a", "d", " ", "f", "i", "l", "e">>
N_xyz == <<"x", "y", "z">>
N_empty == <<>>
Names == {N_chat, N_live_chat, N_Chat, N_tide, N_diet, N_file_upload, N_upload_file,
          N_xyz, N_empty}

\* an extracted feature; confidence is in tenths
Feature(n, c, d) == [name |-> n, confidence |-> c, description |-> d]

F_chat == Feature(N_chat, 5, <<"d">>)
F_Chat == Feature(N_Chat, 9, <<"d", "d">>)
F_live_chat == Feature(N_live_chat, 8, <<"d">>)
F_tide == Feature(N_tide, 8, <<"d">>)
F_diet == Feature(N_diet, 8, <<"d", "d">>)
F_xyz == Feature(N_xyz, 8, <<>>)
F_noname == Feature(N_empty, 8, <<"d">>)

Features == {F_chat, F_Chat, F_live_chat, F_tide, F_diet, F_xyz, F_noname}

\* the merged features and the products' own candidates given to the mapping
MergedUniverse == {F_chat, F_live_chat, F_tide, F_noname}
CandidateUniverse == {F_chat, F_live_chat, F_diet, F_noname}

\* best_match: None, or the feature and its similarity
NoMatch == [found |-> FALSE, feature |-> F_noname, similarity |-> Rat(0, 1)]
Match(f, s) == [found |-> TRUE, feature |-> f, similarity |-> s]

\* a comparison that lets a later candidate of equal similarity win
better_or_equal(similarity, best_similarity) == ~RatGt(best_similarity, similarity)

\* if similarity > best_similarity (line 333)
better(similarity, best_similarity) == RatGt(similarity, best_similarity)

\* the loop of _find_best_feature_match (lines 329-338)
RECURSIVE best_from(_, _, _)
best_from(target_name, product_list, best) ==
    IF product_list = <<>> THEN best
    ELSE LET feature == Head(product_list)
             s == calculate_similarity(target_name, feature.name)
         IN  best_from(target_name, Tail(product_list),
                       IF feature.name # <<>> /\ better(s, best.similarity)
                       THEN Match(feature, s)
                       ELSE best)

\* a matcher that compares the names as they are written
find_best_feature_match_as_written(target_name, product_list) ==
    IF \E k \in 1..Len(product_list) : product_list[k].name = target_name
    THEN Match(product_list[CHOOSE k \in 1..Len(product_list) :
                                product_list[k].name = target_name], Rat(1, 1))
    ELSE NoMatch

\* _find_best_feature_match (lines 321-340)
find_best_feature_match(target_name, product_list) ==
    IF product_list = <<>> THEN NoMatch ELSE best_from(target_name, product_list, NoMatch)

\* the threshold before it was lowered (comment of line 299)
matching_threshold_old == Rat(1, 10)

\* best_match['similarity'] > 0.05 (line 300)
matching_threshold == Rat(5, 100)

\* f'{product_name}<U+C5D0 U+C11C> "{feature_name}" <U+AE30 U+B2A5 U+C744>
\* <U+CC3E U+C744> <U+C218> <U+C5C6 U+C2B5 U+B2C8 U+B2E4>.' (line 313): the
\* description of a feature that was not found in the product
not_found_description(product_name, feature_name) ==
    <<product_name, "uC5D0", "uC11C", " ", "\"">> \o feature_name
        \o <<"\"", " ", "uAE30", "uB2A5", "uC744", " ", "uCC3E", "uC744", " ", "uC218", " ",
             "uC5C6", "uC2B5", "uB2C8", "uB2E4", ".">>

\* the entry of one (product, feature) pair (lines 299-316)
map_entry(product_name, feature_name, best) ==
    IF best.found /\ RatGt(best.similarity, matching_threshold)
    THEN [status |-> "O", confidence |-> best.feature.confidence,
          description |-> best.feature.description, similarity |-> best.similarity]
    ELSE [status |-> "X", confidence |-> 0,
          description |-> not_found_description(product_name, feature_name),
          source_url |-> <<>>]

\* a mapping that records the matches only
product_entries_matched_only(product_name, merged, extracted) ==
    [name \in {merged[i].name : i \in {k \in 1..Len(merged) :
                   /\ merged[k].name # <<>>
                   /\ map_entry(product_name, merged[k].name,
                                find_best_feature_match(merged[k].name, extracted)).status = "O"}}
        |-> map_entry(product_name, name, find_best_feature_match(name, extracted))]

\* product_feature_mapping[product_name]: one entry under the name of every
\* merged feature that has a name (lines 284-316)
product_entries(product_name, merged, extracted) ==
    [name \in {merged[i].name : i \in {k \in 1..Len(merged) : merged[k].name # <<>>}}
        |-> map_entry(product_name, name, find_best_feature_match(name, extracted))]

\* _map_features_to_products (lines 269-319)
map_features_to_products(merged, per_product) ==
    [product_name \in DOMAIN per_product |->
        product_entries(product_name, merged, per_product[product_name].extracted_features)]

\* a deduplication that never looks at seen_names
remove_duplicate_features_keep_all(feature_list) == feature_list

\* the loop of _remove_duplicate_features (lines 293-297)
RECURSIVE unique_from(_, _, _)
unique_from(feature_list, unique, seen_names) ==
    IF feature_list = <<>> THEN unique
    ELSE LET feature == Head(feature_list)
             name == Strip(Lower(feature.name))
         IN  IF name \notin seen_names
             THEN unique_from(Tail(feature_list), Append(unique, feature),
                              seen_names \cup {name})
             ELSE unique_from(Tail(feature_list), unique, seen_names)

\* FeatureExtractor._remove_duplicate_features (lines 288-299)
remove_duplicate_features(feature_list) == unique_from(feature_list, <<>>, {})

\* the products of one request: the first with candidates of its own, the
\* second with none or one
Products(n) ==
    {[p \in {"ProductA", "ProductB"} |->
         [extracted_features |-> IF p = "ProductA" THEN ea ELSE eb]] :
        ea \in SeqsUpTo(CandidateUniverse, n), eb \in {<<>>, <<F_Chat>>}}

call_calculate_similarity(a, b) ==
    /\ op = "idle"
    /\ op' = "similarity"
    /\ text1' = a /\ text2' = b
    /\ final_similarity' = calculate_similarity(a, b)
    /\ UNCHANGED <<target_feature_name, candidates, best_match, merged_features,
                   product_features, product_feature_mapping, features, unique_features>>
    /\ UNCHANGED <<crawlVars, rateVars, filterVars, reuseVars, sitemapVars, jobVars, pairVars>>

call_find_best_feature_match(target_name, product_list) ==
    /\ op = "idle"
    /\ op' = "find_best"
    /\ target_feature_name' = target_name /\ candidates' = product_list
    /\ best_match' = find_best_feature_match(target_name, product_list)
    /\ UNCHANGED <<text1, text2, final_similarity, merged_features,
                   product_features, product_feature_mapping, features, unique_features>>
    /\ UNCHANGED <<crawlVars, rateVars, filterVars, reuseVars, sitemapVars, jobVars, pairVars>>

call_map_features_to_products(merged, per_product) ==
    /\ op = "idle"
    /\ op' = "map"
    /\ merged_features' = merged /\ product_features' = per_product
    /\ product_feature_mapping' = map_features_to_products(merged, per_product)
    /\ UNCHANGED <<text1, text2, final_similarity, target_feature_name, candidates,
                   best_match, features, unique_features>>
    /\ UNCHANGED <<crawlVars, rateVars, filterVars, reuseVars, sitemapVars, jobVars, pairVars>>

\* the patterns given to _matches_pattern: "*.pdf", "/d", "/d*", "*/d*", "*"
P_d_star == <<"/", "d", "*">>
P_star_d_star == <<"*", "/", "d", "*">>
P_star == <<"*">>
Patterns == {P_pdf, P_doc, P_d_star, P_star_d_star, P_star}

call_matches_pattern(url, patterns) ==
    /\ op = "idle"
    /\ op' = "matches_pattern"
    /\ filter_url' = url /\ filter_patterns' = patterns
    /\ filter_matched' = matches_pattern(url, patterns)
    /\ UNCHANGED <<text1, text2, final_similarity, target_feature_name, candidates,
                   best_match, merged_features, product_features, product_feature_mapping,
                   features, unique_features>>
    /\ UNCHANGED <<crawlVars, rateVars, reuseVars, sitemapVars, jobVars, pairVars>>

call_remove_duplicate_features(feature_list) ==
    /\ op = "idle"
    /\ op' = "dedupe"
    /\ features' = feature_list
    /\ unique_features' = remove_duplicate_features(feature_list)
    /\ UNCHANGED <<text1, text2, final_similarity, target_feature_name, candidates,
                   best_match, merged_features, product_features, product_feature_mapping>>
    /\ UNCHANGED <<crawlVars, rateVars, filterVars, reuseVars, sitemapVars, jobVars, pairVars>>

----------------------------------------------------------------------------
(* feature_detection_task and the cancel endpoint *)

\* an event given to websocket_manager: its kind and the progress it carries
Event(k, p) == [kind |-> k, progress |-> p]

\* the local variables of feature_detection_task: total_urls, the loop index,
\* the 'data' of all_product_data in order (TRUE: the crawl returned pages),
\* and whether the event loop of the task has been closed
Task(pos, n, i, data, closed) ==
    [pc |-> pos, total_urls |-> n, i |-> i, all_product_data |-> data, loop_closed |-> closed]

NoTask == Task("none", 0, 0, <<>>, FALSE)
Queued(n) == Task("queued", n, 0, <<>>, FALSE)

\* the methods class VertexAIService defines (vertex_ai_service.py:20-331)
VertexAIService_methods ==
    {"__init__", "extract_features_from_text", "compare_products", "analyze_keyword_support"}

\* loop.run_until_complete(...): RuntimeError('Event loop is closed') on a
\* closed loop, else the result of the coroutine
run_until_complete(closed) == IF closed THEN "RuntimeError" ELSE "result"

\* job.mark_failed(str(e)) (job.py:68-73)
mark_failed(j) == [j EXCEPT !.status = "failed"]

\* job.mark_completed(result) (job.py:57-66)
mark_completed(j) == [j EXCEPT !.status = "completed", !.progress = 100]

\* job.update_progress(progress, current_step) (job.py:49-55): status is not written
update_progress(j, p) == [j EXCEPT !.progress = p]

\* the task starts: status 'running', the service is built and the crawl
\* stage is announced (lines 20-115)
task_begin ==
    /\ task.pc = "queued"
    /\ job' = [job EXCEPT !.status = "running", !.progress = 10]
    /\ emitted' = emitted \o <<Event("init", 0), Event("service_init", 5),
                               Event("crawl_prepare", 10), Event("crawl_start", 10)>>
    /\ task' = [task EXCEPT !.pc = "crawl", !.i = 0]
    /\ UNCHANGED <<revoke, cancelled>>
    /\ UNCHANGED <<crawlVars, rateVars, featureVars, filterVars, reuseVars, sitemapVars, pairVars>>

\* one pass of the crawl loop (lines 117-142): the progress of the URL is
\* emitted, then crawl_website returns pages or nothing, or raises, which
\* stores an empty list
task_crawl_url(crawled) ==
    /\ task.pc = "crawl" /\ task.i < task.total_urls
    /\ job' = update_progress(job, 10 + (task.i * 30) \div task.total_urls)
    /\ emitted' = Append(emitted,
                         Event("url_progress", 10 + (task.i * 30) \div task.total_urls))
    /\ task' = [task EXCEPT !.i = @ + 1,
                            !.all_product_data = Append(@, crawled = "pages")]
    /\ UNCHANGED <<revoke, cancelled>>
    /\ UNCHANGED <<crawlVars, rateVars, featureVars, filterVars, reuseVars, sitemapVars, pairVars>>

\* the crawl loop is over: "finally: loop.close()", then the analysis stage
\* is announced (lines 143-153)
task_analysis_start ==
    /\ task.pc = "crawl" /\ task.i = task.total_urls
    /\ job' = update_progress(job, 40)
    /\ emitted' = Append(emitted, Event("analysis_start", 40))
    /\ task' = [task EXCEPT !.pc = "analysis", !.i = 0, !.loop_closed = TRUE]
    /\ UNCHANGED <<revoke, cancelled>>
    /\ UNCHANGED <<crawlVars, rateVars, featureVars, filterVars, reuseVars, sitemapVars, pairVars>>

\* one pass of the analysis loop (lines 158-185): a product with pages has
\* its progress emitted and is analysed through loop.run_until_complete; a
\* product without pages gets an empty feature list
task_analyze_product ==
    /\ task.pc = "analysis" /\ task.i < task.total_urls
    /\ IF task.all_product_data[task.i + 1]
       THEN LET analysis_progress == 40 + (task.i * 40) \div task.total_urls
                events == Append(emitted, Event("product_progress", analysis_progress))
            IN  IF run_until_complete(task.loop_closed) = "RuntimeError"
                THEN \* except Exception (lines 274-288)
                     /\ job' = mark_failed(update_progress(job, analysis_progress))
                     /\ emitted' = Append(events, Event("job_failed", analysis_progress))
                     /\ task' = [task EXCEPT !.pc = "raised"]
                ELSE /\ job' = update_progress(job, analysis_progress)
                     /\ emitted' = events
                     /\ task' = [task EXCEPT !.i = @ + 1]
       ELSE /\ task' = [task EXCEPT !.i = @ + 1]
            /\ UNCHANGED <<job, emitted>>
    /\ UNCHANGED <<revoke, cancelled>>
    /\ UNCHANGED <<crawlVars, rateVars, featureVars, filterVars, reuseVars, sitemapVars, pairVars>>

\* the merge stage and what follows it (lines 187-272): the merge is
\* announced, feature_service.vertex_ai.merge_and_deduplicate_features is
\* looked up, and only if VertexAIService has it are the features mapped, the
\* result built, the job marked completed and the completion emitted
task_merge_and_finish ==
    /\ task.pc = "analysis" /\ task.i = task.total_urls
    /\ IF "merge_and_deduplicate_features" \in VertexAIService_methods
       THEN /\ job' = mark_completed(job)
            /\ emitted' = emitted \o <<Event("merge", 80), Event("finalize", 90),
                                       Event("job_completed", 100)>>
            /\ task' = [task EXCEPT !.pc = "returned"]
       ELSE \* AttributeError; except Exception (lines 274-288)
            /\ job' = mark_failed(update_progress(job, 80))
            /\ emitted' = emitted \o <<Event("merge", 80), Event("job_failed", 80)>>
            /\ task' = [task EXCEPT !.pc = "raised"]
    /\ UNCHANGED <<revoke, cancelled>>
    /\ UNCHANGED <<crawlVars, rateVars, featureVars, filterVars, reuseVars, sitemapVars, pairVars>>

\* detect_features stores the id of the task it queued
\* (feature_detection_routes.py:124-126)
store_task_id ==
    /\ ~job.celery_task_id
    /\ job' = [job EXCEPT !.celery_task_id = TRUE]
    /\ UNCHANGED <<task, emitted, revoke, cancelled>>
    /\ UNCHANGED <<crawlVars, rateVars, featureVars, filterVars, reuseVars, sitemapVars, pairVars>>

\* POST /jobs/<job_id>/cancel (job_routes.py:53-84): refused for a job that
\* is completed or failed; the task is revoked if the job has its id; the
\* status becomes 'cancelled'
cancel_job ==
    /\ cancelled = "no"
    /\ job.status \notin {"completed", "failed"}
    /\ revoke' = IF job.celery_task_id THEN "sent" ELSE revoke
    /\ job' = [job EXCEPT !.status = "cancelled"]
    /\ cancelled' = task.pc
    /\ UNCHANGED <<task, emitted>>
    /\ UNCHANGED <<crawlVars, rateVars, featureVars, filterVars, reuseVars, sitemapVars, pairVars>>

\* the revoke reaches the worker: a task that has not started is dropped, a
\* running one has its process terminated, a finished one is left as it is
deliver_revoke ==
    /\ revoke = "sent"
    /\ revoke' = "done"
    /\ task' = [task EXCEPT !.pc = IF @ = "queued" THEN "revoked"
                                   ELSE IF @ \in {"crawl", "analysis"} THEN "terminated"
                                   ELSE @]
    /\ UNCHANGED <<job, emitted, cancelled>>
    /\ UNCHANGED <<crawlVars, rateVars, featureVars, filterVars, reuseVars, sitemapVars, pairVars>>

----------------------------------------------------------------------------
(* Concurrent crawls: crawl_site_advanced and crawl_website called while    *)
(* other calls of them are running                                          *)

\* the pages of a site: what a request for each URL gives, every time
W_tree ==
    [u \in URLs |->
        CASE u = U_root -> [ok |-> TRUE, links |-> <<U_doc, U_sub>>]
          [] u = U_doc  -> [ok |-> TRUE, links |-> <<U_frag, U_pdf>>]
          [] u = U_sub  -> [ok |-> TRUE, links |-> <<U_root>>]
          [] OTHER      -> [ok |-> TRUE, links |-> <<>>]]

\* the same site with a page that fails
W_fail == [W_tree EXCEPT ![U_doc] = NoPage]

Webs == {W_tree, W_fail}

\* a reading of time.time() is named by the call and the step that took it;
\* Never is the 0 of __init__
Instant(i, n) == <<i, n>>
Never == Instant(0, 0)

\* the containers of a crawl: the fields AdvancedSiteCrawler.__init__ sets
\* (lines 86-89), or the locals of a _crawl_sync frame (lines 44-46)
Crawler(v, q, r, t) ==
    [visited_urls |-> v, url_queue |-> q, crawl_results |-> r, last_request_time |-> t]

NewCrawler == Crawler({}, <<>>, <<>>, Never)

\* one call: where it is, the containers it works on, and what it returned
Invocation(p, c, b, e, n, t, r) ==
    [pc |-> p, crawler |-> c, base_url |-> b, current |-> e, steps |-> n,
     requested_at |-> t, returned |-> r]

NoInvocation == Invocation("new", 0, <<>>, NoEntry, 0, Never, <<>>)

new_crawler_shared(objs) == 1

\* crawler = AdvancedSiteCrawler(config) (advanced_crawling_service.py:88) and
\* the frame of _crawl_sync: every call gets containers of its own
new_crawler(objs) == Len(objs) + 1

\* crawl() lines 345-359 and _crawl_sync lines 44-46: the containers at the
\* start of the traversal
seeded(kind, c, b) ==
    [c EXCEPT !.visited_urls = {},
              !.crawl_results = <<>>,
              !.url_queue = IF kind = "advanced"
                            THEN <<FrontierEntry(b, 0, "initial")>>
                            ELSE <<QueueEntry(b, 0)>>]

\* one step of the traversal loop of a call f on its containers c at time t:
\* the loop test and the pop (crawl() lines 373-382, _crawl_sync lines 55-60),
\* or the request and what is done with the page (crawl() lines 383-412 with
\* _rate_limit, _crawl_sync lines 66-135)
crawl_step(kind, cfg, w, f, c, t) ==
    IF f.pc = "loop"
    THEN IF loop_continues(cfg, c.url_queue, c.crawl_results)
         THEN LET e == front(c.url_queue)
                  q == popped(c.url_queue)
              IN  IF kind = "advanced"
                  THEN IF already_visited(c.visited_urls, e.url)
                       THEN <<[f EXCEPT !.steps = @ + 1], [c EXCEPT !.url_queue = q]>>
                       ELSE <<[f EXCEPT !.steps = @ + 1, !.pc = "fetch", !.current = e],
                              [c EXCEPT !.url_queue = q,
                                        !.visited_urls = @ \cup {e.url}]>>
                  ELSE IF \/ already_visited(c.visited_urls, e.url)
                          \/ e.depth > cfg.max_depth
                       THEN <<[f EXCEPT !.steps = @ + 1], [c EXCEPT !.url_queue = q]>>
                       ELSE <<[f EXCEPT !.steps = @ + 1, !.pc = "fetch", !.current = e],
                              [c EXCEPT !.url_queue = q]>>
         ELSE <<[f EXCEPT !.steps = @ + 1, !.pc = "done", !.returned = c.crawl_results], c>>
    ELSE LET page == w[f.current.url]
             g == [f EXCEPT !.steps = @ + 1, !.pc = "loop", !.requested_at = t]
         IN  IF kind = "advanced"
             THEN <<g, [c EXCEPT
                        !.last_request_time = t,
                        !.crawl_results = IF page.ok THEN Append(@, f.current) ELSE @,
                        !.url_queue =
                            IF page.ok /\ follows_links(cfg, f.current.depth)
                            THEN enqueue(@, Enqueued(cfg, c.visited_urls, page.links,
                                                     Netloc(f.base_url),
                                                     f.current.depth + 1, "link"))
                            ELSE @]>>
             ELSE LET seen == c.visited_urls \cup {f.current.url}
                  IN  <<g, [c EXCEPT
                        !.visited_urls = seen,
                        !.crawl_results =
                            IF page.ok
                            THEN Append(@, QueueEntry(f.current.url, f.current.depth))
                            ELSE @,
                        !.url_queue =
                            IF page.ok
                            THEN enqueue(@, SelectSeq(
                                     new_urls(cfg, c.visited_urls, c.url_queue, page.links,
                                              Netloc(f.base_url), f.current.depth),
                                     LAMBDA e : e.url \notin seen))
                            ELSE @]>>

\* a call of crawl_site_advanced(b, ...) or crawl_website(b) starts
crawl_invoke(i, b) ==
    /\ invocations[i].pc = "new"
    /\ LET k == new_crawler(crawlers)
           objs == IF k > Len(crawlers) THEN Append(crawlers, NewCrawler) ELSE crawlers
       IN  /\ crawlers' = [objs EXCEPT ![k] = seeded(impl, @, b)]
           /\ invocations' = [invocations EXCEPT ![i] =
                  Invocation("loop", k, b, NoEntry, 0, Never, <<>>)]
    /\ UNCHANGED web
    /\ UNCHANGED <<crawlVars, rateVars, featureVars, filterVars, reuseVars, sitemapVars, jobVars>>

\* a running call takes its next step
crawl_advance(i) ==
    /\ invocations[i].pc \in {"loop", "fetch"}
    /\ LET f == invocations[i]
           n == crawl_step(impl, config, web, f, crawlers[f.crawler],
                           Instant(i, f.steps + 1))
       IN  /\ invocations' = [invocations EXCEPT ![i] = n[1]]
           /\ crawlers' = [crawlers EXCEPT ![f.crawler] = n[2]]
    /\ UNCHANGED web
    /\ UNCHANGED <<crawlVars, rateVars, featureVars, filterVars, reuseVars, sitemapVars, jobVars>>

----------------------------------------------------------------------------
(* Specifications *)

CrawlInit ==
    /\ impl \in {"advanced", "recursive"}
    /\ config \in (IF impl = "advanced" THEN Configs ELSE ServiceConfigs)
    /\ site \in (IF impl = "advanced" /\ config.use_sitemap THEN Sites ELSE {SiteNone})
    /\ base_url = <<>>
    /\ pc = "idle"
    /\ visited_urls = {}
    /\ url_queue = <<>>
    /\ crawl_results = <<>>
    /\ stats = ZeroStats
    /\ current = NoEntry
    /\ page_data = NoPage
    /\ outbound = NoRequest
    /\ slept = FALSE
    /\ outcome = NoOutcome

CrawlIdle ==
    /\ impl = "none"
    /\ config \in {c \in ServiceConfigs : c.max_pages = 0 /\ c.max_depth = 0}
    /\ site = SiteNone
    /\ base_url = <<>>
    /\ pc = "idle"
    /\ visited_urls = {}
    /\ url_queue = <<>>
    /\ crawl_results = <<>>
    /\ stats = ZeroStats
    /\ current = NoEntry
    /\ page_data = NoPage
    /\ outbound = NoRequest
    /\ slept = FALSE
    /\ outcome = NoOutcome

\* a limiter right after construction; the clock is far from the epoch
RateInit ==
    /\ rl_kind \in {"RateLimiter", "advanced", "base"}
    /\ min_interval \in 1..MaxInterval
    /\ now = MaxInterval
    /\ last_request_time = 0
    /\ request_times = <<>>
    /\ prev_return = 0
    /\ last_return = 0

RateIdle ==
    /\ rl_kind = "none"
    /\ min_interval = 1
    /\ now = 0
    /\ last_request_time = 0
    /\ request_times = <<>>
    /\ prev_return = 0
    /\ last_return = 0

\* no matcher function has been called
FeatureIdle ==
    /\ op = "idle"
    /\ text1 = <<>> /\ text2 = <<>> /\ final_similarity = Rat(0, 1)
    /\ target_feature_name = <<>> /\ candidates = <<>> /\ best_match = NoMatch
    /\ merged_features = <<>> /\ product_features = <<>> /\ product_feature_mapping = <<>>
    /\ features = <<>> /\ unique_features = <<>>

\* the caller holds no list of an earlier crawl()
ReuseIdle == held = NoHeld

\* no job has been created
JobIdle ==
    /\ job = [status |-> "none", progress |-> 0, celery_task_id |-> FALSE]
    /\ task = NoTask
    /\ emitted = <<>> /\ revoke = "none" /\ cancelled = "no"

\* _get_sitemap_urls has not been called
SitemapIdle == sm_pc = "idle" /\ sm_pending = <<>> /\ sm_stack = <<>> /\ sitemap_urls = <<>>

\* _matches_pattern has not been called
FilterIdle == filter_url = <<>> /\ filter_patterns = <<>> /\ filter_matched = FALSE

\* no concurrent calls are modelled
PairIdle == invocations = <<>> /\ crawlers = <<>> /\ web = W_tree

Init == CrawlInit /\ RateIdle /\ FeatureIdle /\ FilterIdle /\ ReuseIdle /\ SitemapIdle /\ JobIdle /\ PairIdle

Next ==
    \/ \E b \in BaseUrls : crawl_begin(b)
    \/ crawl_sitemap
    \/ crawl_loop
    \/ fetch_page
    \/ crawl_handle
    \/ \E b \in BaseUrls : crawl_sync_begin(b)
    \/ crawl_sync_loop
    \/ crawl_sync_fetch
    \/ crawl_sync_handle

Spec == Init /\ [][Next]_vars

InitRate == CrawlIdle /\ RateInit /\ FeatureIdle /\ FilterIdle /\ ReuseIdle /\ SitemapIdle /\ JobIdle /\ PairIdle

NextRate == elapse \/ wait \/ rate_limit

SpecRate == InitRate /\ [][NextRate]_vars

\* a crawl runs on one thread and every HTTP call carries a timeout, so a
\* step that can be taken is taken
FairSpec == Spec /\ WF_vars(Next)

\* the matcher: one function applied to one input
InitMatch == CrawlIdle /\ RateIdle /\ FeatureIdle /\ FilterIdle /\ ReuseIdle /\ SitemapIdle /\ JobIdle /\ PairIdle

NextMatch ==
    \/ \E a \in Names, b \in Names : call_calculate_similarity(a, b)
    \/ \E target_name \in Names, product_list \in SeqsUpTo(Features, MaxCandidates) :
           call_find_best_feature_match(target_name, product_list)
    \/ \E merged \in SeqsUpTo(MergedUniverse, MaxMerged), per_product \in Products(MaxCandidates) :
           call_map_features_to_products(merged, per_product)
    \/ \E feature_list \in SeqsUpTo(Features, MaxFeatures) :
           call_remove_duplicate_features(feature_list)

SpecMatch == InitMatch /\ [][NextMatch]_vars

\* the URL filter's pattern matcher applied to one URL and one pattern list
NextFilter ==
    \E url \in URLs, patterns \in SeqsUpTo(Patterns, MaxPatterns) :
        call_matches_pattern(url, patterns)

SpecFilter == InitMatch /\ [][NextFilter]_vars

\* one AdvancedSiteCrawler whose crawl() is called a second time after it
\* returned; the crawls are short ones without a sitemap
InitReuse ==
    /\ Init
    /\ impl = "advanced"
    /\ ~config.use_sitemap /\ config.exclude_patterns = <<>>
    /\ config.max_pages \in {1, 2} /\ config.max_depth \in {0, 1}

NextReuse ==
    \/ \E b \in BaseUrls : crawl_begin(b)
    \/ crawl_loop
    \/ fetch_page
    \/ crawl_handle
    \/ \E b \in BaseUrls : crawl_again(b)

SpecReuse == InitReuse /\ [][NextReuse]_vars

\* _get_sitemap_urls of a crawler that uses sitemaps, on one site
InitSitemap ==
    /\ impl = "advanced"
    /\ config \in {c \in Configs : c.use_sitemap /\ c.max_pages = MaxPagesBound
                                     /\ c.max_depth = MaxDepthBound}
    /\ site \in SitemapSites
    /\ base_url = <<>> /\ pc = "idle"
    /\ visited_urls = {} /\ url_queue = <<>> /\ crawl_results = <<>>
    /\ stats = ZeroStats /\ current = NoEntry /\ page_data = NoPage
    /\ outbound = NoRequest /\ slept = FALSE /\ outcome = NoOutcome
    /\ RateIdle /\ FeatureIdle /\ FilterIdle /\ ReuseIdle /\ SitemapIdle /\ JobIdle /\ PairIdle

NextSitemap ==
    \/ get_sitemap_urls_begin
    \/ parse_sitemap_call
    \/ parse_sitemap_return
    \/ get_sitemap_urls_return

SpecSitemap == InitSitemap /\ [][NextSitemap]_vars

\* every request of the session carries config.timeout, so a call that can
\* go on does go on
FairSitemap == SpecSitemap /\ WF_vars(NextSitemap)

\* a feature-detection job that detect_features has committed and
\* queued (feature_detection_routes.py:56-75)
InitJob ==
    /\ CrawlIdle /\ RateIdle /\ FeatureIdle /\ FilterIdle /\ ReuseIdle /\ SitemapIdle /\ PairIdle
    /\ job = [status |-> "pending", progress |-> 0, celery_task_id |-> FALSE]
    /\ \E n \in 1..MaxUrls : task = Queued(n)
    /\ emitted = <<>> /\ revoke = "none" /\ cancelled = "no"

\* the task alone
NextTask ==
    \/ task_begin
    \/ \E crawled \in {"pages", "empty", "raised"} : task_crawl_url(crawled)
    \/ task_analysis_start
    \/ task_analyze_product
    \/ task_merge_and_finish

SpecTask == InitJob /\ [][NextTask]_vars

\* the task, the request that started it and a cancel request
NextJob ==
    \/ NextTask
    \/ store_task_id
    \/ cancel_job
    \/ deliver_revoke

SpecJob == InitJob /\ [][NextJob]_vars

\* MaxConcurrent calls of one of the two crawlers, on one site
InitPair ==
    /\ impl \in {"advanced", "recursive"}
    /\ config \in {c \in (IF impl = "advanced" THEN Configs ELSE ServiceConfigs) :
                       /\ ~c.use_sitemap /\ c.exclude_patterns = <<>>
                       /\ c.max_pages = MaxPagesBound
                       /\ c.max_depth \in {1, MaxDepthBound}}
    /\ site = SiteNone
    /\ base_url = <<>> /\ pc = "idle"
    /\ visited_urls = {} /\ url_queue = <<>> /\ crawl_results = <<>>
    /\ stats = ZeroStats /\ current = NoEntry /\ page_data = NoPage
    /\ outbound = NoRequest /\ slept = FALSE /\ outcome = NoOutcome
    /\ RateIdle /\ FeatureIdle /\ FilterIdle /\ ReuseIdle /\ SitemapIdle /\ JobIdle
    /\ invocations = [i \in 1..MaxConcurrent |-> NoInvocation]
    /\ crawlers = <<>>
    /\ web \in Webs

NextPair ==
    \/ \E i \in 1..MaxConcurrent, b \in BaseUrls : crawl_invoke(i, b)
    \/ \E i \in 1..MaxConcurrent : crawl_advance(i)

SpecPair == InitPair /\ [][NextPair]_vars

\* the crawls in which an exception may escape the traversal loop
NextAbort == Next \/ crawl_abort \/ crawl_website_abort

SpecAbort == Init /\ [][NextAbort]_vars

----------------------------------------------------------------------------
(* Properties *)

IsCrawling == pc \in {"sitemap", "loop", "fetch", "handle"}

\* C1: at every step of a crawl and at its return, the number of collected
\* PageResults is at most max_pages.
C1_ResultsAtMostMaxPages == Len(crawl_results) <= config.max_pages

\* a crawl that stopped at the ceiling with URLs left in the frontier
C1_Witness ==
    /\ pc = "done" /\ config.max_pages = MaxPagesBound
    /\ Len(crawl_results) = config.max_pages /\ url_queue # <<>>

\* C2: every collected PageResult, and every page being fetched, has
\* depth <= max_depth.
C2_DepthAtMostMaxDepth ==
    /\ \A i \in 1..Len(crawl_results) : crawl_results[i].depth <= config.max_depth
    /\ pc \in {"fetch", "handle"} => current.depth <= config.max_depth

\* a page at the depth limit was collected and the crawl ended below the
\* page ceiling because its links were not followed
C2_Witness ==
    /\ pc = "done" /\ config.max_depth = 1 /\ Len(crawl_results) < config.max_pages
    /\ crawl_results # <<>> /\ crawl_results[Len(crawl_results)].depth = config.max_depth
    /\ \E i \in 1..Len(crawl_results) : crawl_results[i].depth = config.max_depth

\* C3: no URL appears in two PageResults; during a crawl the visited set only
\* grows, and a URL is fetched only if it was not in the visited set.
NoDuplicateResults ==
    \A i, j \in 1..Len(crawl_results) :
        crawl_results[i].url = crawl_results[j].url => i = j

VisitedGrows == IsCrawling => visited_urls \subseteq visited_urls'

FetchOnlyUnvisited == pc = "loop" /\ pc' = "fetch" => current'.url \notin visited_urls

C3_NoUrlTwice ==
    []NoDuplicateResults /\ [][VisitedGrows /\ FetchOnlyUnvisited]_vars

\* a visited URL was discovered again and is waiting in the frontier
C3_Witness ==
    /\ Len(crawl_results) >= 2
    /\ \E i \in 1..Len(url_queue) : url_queue[i].url \in visited_urls

\* C4: crawl() terminates on every site, cyclic links included.
C4_CrawlTerminates == IsCrawling ~> (pc = "done")

\* a crawl that returned although a visited URL was linked again
C4_Witness ==
    /\ pc = "done"
    /\ \E i \in 1..Len(url_queue) : url_queue[i].url \in visited_urls

\* C5: breadth-first order: result depths are non-decreasing in list order,
\* the frontier is ordered by depth, and no frontier entry or page being
\* fetched is shallower than a page already collected.
C5_BreadthFirst ==
    /\ \A i, j \in 1..Len(crawl_results) :
           i < j => crawl_results[i].depth <= crawl_results[j].depth
    /\ \A i, j \in 1..Len(url_queue) :
           i < j => url_queue[i].depth <= url_queue[j].depth
    /\ \A i \in 1..Len(crawl_results), j \in 1..Len(url_queue) :
           crawl_results[i].depth <= url_queue[j].depth
    /\ pc \in {"fetch", "handle"} =>
           /\ \A i \in 1..Len(crawl_results) : crawl_results[i].depth <= current.depth
           /\ \A j \in 1..Len(url_queue) : current.depth <= url_queue[j].depth

\* a depth-1 page was collected while depth-1 and depth-2 entries wait
C5_Witness ==
    /\ \E i \in 1..Len(crawl_results) : crawl_results[i].depth = 1
    /\ \E j \in 1..Len(url_queue) : url_queue[j].depth = 1
    /\ \E j \in 1..Len(url_queue) : url_queue[j].depth = 2

\* C6: a page whose fetch returned None adds one to the failure counter, adds
\* no PageResult and no frontier entry, and the loop goes on with the next
\* frontier entry.
FailureHandled ==
    impl = "advanced" /\ pc = "handle" /\ ~page_data.ok =>
        /\ stats'.failed_pages = stats.failed_pages + 1
        /\ crawl_results' = crawl_results
        /\ url_queue' = url_queue
        /\ pc' = "loop"

LoopGoesOn ==
    /\ impl = "advanced" /\ pc = "loop"
    /\ url_queue # <<>> /\ Len(crawl_results) < config.max_pages
    => pc' \in {"loop", "fetch"}

C6_FailureIsCountedAndSkipped == [][FailureHandled /\ LoopGoesOn]_vars

\* after a failed page the crawl is fetching the next one
C6_Witness ==
    /\ impl = "advanced" /\ pc = "fetch" /\ stats.failed_pages >= 1
    /\ Len(crawl_results) >= 1

\* C7: a robots.txt or sitemap request that fails contributes nothing and
\* stops nothing: the frontier holds the seed URL first, every sitemap entry
\* comes from a sitemap that was served (so none at all when every request
\* fails, as with a 404 on sitemap.xml), and the crawl completes.
Failed(doc) == doc.kind \in {"unreachable", "malformed"} \/ doc.status >= 400

SomeSitemapRequestFails ==
    /\ impl = "advanced" /\ config.use_sitemap
    /\ \E s \in SitemapIds : Failed(site.docs[s])

AllSitemapRequestsFail ==
    /\ impl = "advanced" /\ config.use_sitemap
    /\ site.robots.status # 200
    /\ \A s \in SitemapIds : Failed(site.docs[s])

Served(u) ==
    \E s \in SitemapIds :
        /\ ~Failed(site.docs[s])
        /\ \E k \in 1..Len(site.docs[s].urls) : site.docs[s].urls[k] = u

FromSeedLinksAndServedSitemaps ==
    /\ \A i \in 1..Len(url_queue) :
           url_queue[i].source = "sitemap" => Served(url_queue[i].url)
    /\ \A i \in 1..Len(crawl_results) :
           crawl_results[i].source = "sitemap" => Served(crawl_results[i].url)
    /\ \/ base_url \in visited_urls
       \/ url_queue # <<>> /\ Head(url_queue) = [url |-> base_url, depth |-> 0, source |-> "initial"]

C7_SitemapFailureNotFatal ==
    /\ [](impl = "advanced" /\ pc \in {"loop", "fetch", "handle", "done"}
            => FromSeedLinksAndServedSitemaps)
    /\ (SomeSitemapRequestFails /\ pc = "sitemap") ~> (pc = "done")

\* the crawl returned pages found through links although no sitemap was served
C7_Witness ==
    /\ AllSitemapRequestsFail /\ pc = "done"
    /\ \E i \in 1..Len(crawl_results) : crawl_results[i].source = "link"

\* C8: with "*.pdf" among the exclude patterns, a URL ending in report.pdf
\* that is found as a link (or in a sitemap) is never enqueued and never
\* fetched; only the seed URL escapes the filter.
ReportPdf == <<"r", "e", "p", "o", "r", "t", ".", "p", "d", "f">>

ExcludesPdf == \E i \in 1..Len(config.exclude_patterns) : config.exclude_patterns[i] = P_pdf

C8_ExcludedPdfNeverFetched ==
    ExcludesPdf =>
        /\ \A i \in 1..Len(url_queue) :
               EndsWith(url_queue[i].url, ReportPdf) => url_queue[i].source = "initial"
        /\ \A i \in 1..Len(crawl_results) :
               EndsWith(crawl_results[i].url, ReportPdf) => crawl_results[i].source = "initial"
        /\ \A u \in visited_urls : EndsWith(u, ReportPdf) => u = base_url

\* a fetched page links to report.pdf and its links are about to be followed
C8_Witness ==
    /\ ExcludesPdf /\ pc = "handle" /\ page_data.ok /\ current.depth < config.max_depth
    /\ \E i \in 1..Len(page_data.links) : EndsWith(page_data.links[i], ReportPdf)
    /\ base_url = U_root /\ config.max_depth >= 1 /\ config.include_patterns = <<>>

\* C9 as stated: with max_pages = 1, crawl() returns exactly one PageResult.
C9_ExactlyOneResult ==
    impl = "advanced" /\ pc = "done" /\ config.max_pages = 1 => Len(crawl_results) = 1

\* C9 amended: with max_pages = 1, crawl() returns at most one PageResult;
\* it returns one as soon as a fetch succeeds, whatever is left in the
\* frontier, and none only when the frontier ran empty.
C9_OneResultUnlessFrontierExhausted ==
    impl = "advanced" /\ pc = "done" /\ config.max_pages = 1 =>
        \/ Len(crawl_results) = 1
        \/ Len(crawl_results) = 0 /\ url_queue = <<>>

\* one page returned, unvisited URLs left in the frontier
C9_Witness ==
    /\ impl = "advanced" /\ pc = "done" /\ config.max_pages = 1
    /\ Len(crawl_results) = 1
    /\ \E i \in 1..Len(url_queue) : url_queue[i].url \notin visited_urls

\* C10: every wait() returns at least min_interval after the previous call
\* on the same limiter returned.
C10_MinimumInterval ==
    prev_return > 0 => last_return - prev_return >= min_interval

\* C11 as stated: every outbound request of a crawl after its first one (page,
\* robots.txt or sitemap, after a success or after a failure) is immediately
\* preceded by a rate-limiter wait.
C11_EveryRequestThrottled ==
    (outbound.kind # "none" /\ ~outbound.first) => outbound.waited

C13_AttemptsAtMostPagesTimesDepth ==
    impl = "advanced" => stats.total_pages <= config.max_pages * config.max_depth

\* C13 amended: one crawl() makes at most max_pages fetch attempts plus one
\* for every fetch that failed; max_depth does not bound the attempts.
C13_AttemptsAtMostPagesPlusFailures ==
    impl = "advanced" => stats.total_pages <= config.max_pages + stats.failed_pages

\* a finished crawl that reached the bound with failed fetches among its attempts
C13_Witness ==
    /\ impl = "advanced" /\ pc = "done" /\ stats.failed_pages >= 1
    /\ config.max_pages >= 1
    /\ stats.total_pages = config.max_pages + stats.failed_pages

\* name.lower().strip(), the key of a deduplication group
NormalizedName(name) == Strip(Lower(name))

\* the product's own candidates that have a name
Named(product_list) == {k \in 1..Len(product_list) : product_list[k].name # <<>>}

C15_StatusOIffAboveThreshold ==
    op = "map" =>
        \A p \in DOMAIN product_feature_mapping :
            \A name \in DOMAIN product_feature_mapping[p] :
                LET entry == product_feature_mapping[p][name]
                    own == product_features[p].extracted_features
                    sim(k) == calculate_similarity(name, own[k].name)
                IN  /\ entry.status = "O" <=>
                           \E k \in Named(own) : RatGt(sim(k), Rat(5, 100))
                    /\ entry.status = "O" =>
                           /\ RatGt(entry.similarity, Rat(5, 100))
                           /\ \E k \in Named(own) : RatEq(sim(k), entry.similarity)
                           /\ \A k \in Named(own) : ~RatGt(sim(k), entry.similarity)

\* one pair is matched with a similarity between 0.05 and 0.1, another pair
\* of a product that has candidates is not matched
C15_Witness ==
    /\ op = "map"
    /\ \E p \in DOMAIN product_feature_mapping :
           \E name \in DOMAIN product_feature_mapping[p] :
               /\ product_feature_mapping[p][name].status = "O"
               /\ RatGt(Rat(1, 10), product_feature_mapping[p][name].similarity)
    /\ \E p \in DOMAIN product_feature_mapping :
           \E name \in DOMAIN product_feature_mapping[p] :
               /\ product_feature_mapping[p][name].status = "X"
               /\ product_features[p].extracted_features # <<>>

\* C16 as stated: similarity(a, b) = similarity(b, a).
C16_SimilaritySymmetric ==
    op = "similarity" => RatEq(final_similarity, calculate_similarity(text2, text1))

\* C17 as stated: the match returned is a candidate of maximal similarity,
\* and None is returned exactly when there is no candidate.
C17_BestOrNoneIffEmpty ==
    op = "find_best" =>
        /\ ~best_match.found <=> candidates = <<>>
        /\ best_match.found =>
               /\ \E k \in 1..Len(candidates) : candidates[k] = best_match.feature
               /\ \A k \in 1..Len(candidates) :
                      ~RatGt(calculate_similarity(target_feature_name, candidates[k].name),
                             best_match.similarity)

\* C17 amended: the match returned is the first of the named candidates of
\* maximal similarity, and None is returned exactly when no named candidate
\* has a similarity above 0.
C17_FirstBestNamedOrNone ==
    op = "find_best" =>
        LET sim(k) == calculate_similarity(target_feature_name, candidates[k].name)
        IN  /\ ~best_match.found <=>
                   ~\E k \in Named(candidates) : RatGt(sim(k), Rat(0, 1))
            /\ best_match.found =>
                   \E k \in Named(candidates) :
                       /\ candidates[k] = best_match.feature
                       /\ RatEq(sim(k), best_match.similarity)
                       /\ \A j \in Named(candidates) : ~RatGt(sim(j), sim(k))
                       /\ \A j \in Named(candidates) : j < k => RatGt(sim(k), sim(j))

\* two named candidates are equally similar to the target and the first is returned
C17_Witness ==
    /\ op = "find_best" /\ best_match.found /\ Len(candidates) = 2
    /\ candidates[1] # candidates[2]
    /\ Named(candidates) = {1, 2}
    /\ RatEq(calculate_similarity(target_feature_name, candidates[1].name),
             calculate_similarity(target_feature_name, candidates[2].name))
    /\ best_match.feature = candidates[1]

C19_RepresentativeIsBest ==
    op = "dedupe" =>
        \A k \in 1..Len(unique_features) : \A i \in 1..Len(features) :
            NormalizedName(features[i].name) = NormalizedName(unique_features[k].name) =>
                \/ unique_features[k].confidence > features[i].confidence
                \/ /\ unique_features[k].confidence = features[i].confidence
                   /\ Len(unique_features[k].description) >= Len(features[i].description)

\* C20: the names "chat" and U+C2E4 U+C2DC U+AC04 " " U+CC44 U+D305 are at
\* least 0.4 similar, in either order, which is above the threshold, and a
\* product with a candidate of one name is mapped 'O' for a merged feature of
\* the other name.
C20_ChatSynonymsMatch ==
    /\ (op = "similarity" /\ {text1, text2} = {N_chat, N_live_chat}) =>
           /\ ~RatGt(Rat(4, 10), final_similarity)
           /\ RatGt(final_similarity, Rat(5, 100))
    /\ op = "map" =>
           \A p \in DOMAIN product_feature_mapping :
               \A name \in DOMAIN product_feature_mapping[p] :
                   (\E k \in 1..Len(product_features[p].extracted_features) :
                        {name, product_features[p].extracted_features[k].name}
                            = {N_chat, N_live_chat})
                   => product_feature_mapping[p][name].status = "O"

\* "chat" is mapped for a product whose only candidate is the Korean name,
\* with the synonym bonus as its whole similarity
C20_Witness ==
    /\ op = "map"
    /\ \E p \in DOMAIN product_feature_mapping :
           /\ product_features[p].extracted_features = <<F_live_chat>>
           /\ N_chat \in DOMAIN product_feature_mapping[p]
           /\ product_feature_mapping[p][N_chat].status = "O"
           /\ RatEq(product_feature_mapping[p][N_chat].similarity, Rat(4, 10))

\* the named candidates of a product that are more similar to a feature name
\* than the threshold
AboveThreshold(name, extracted) ==
    {k \in 1..Len(extracted) :
        /\ extracted[k].name # <<>>
        /\ RatGt(calculate_similarity(name, extracted[k].name), matching_threshold)}

\* C21 as stated: when no candidate of a product exceeds the threshold for a
\* merged feature, the entry of the pair has status 'X', the description
\* that says the feature was not found in the product, and a similarity
\* field whose value is 0.
C21_MissHasSimilarityZero ==
    op = "map" =>
        \A p \in DOMAIN product_feature_mapping :
            \A name \in DOMAIN product_feature_mapping[p] :
                AboveThreshold(name, product_features[p].extracted_features) = {} =>
                    /\ product_feature_mapping[p][name].status = "X"
                    /\ product_feature_mapping[p][name].description
                           = not_found_description(p, name)
                    /\ "similarity" \in DOMAIN product_feature_mapping[p][name]
                    /\ RatEq(product_feature_mapping[p][name].similarity, Rat(0, 1))

\* the documented dialect: a pattern that ends with * matches the URLs that
\* contain what is left of it without its stars, a pattern that only starts
\* with * matches the URLs that end with the rest, and a pattern without a
\* star matches the URLs that contain it
Dialect(url, pattern) ==
    IF EndsWith(pattern, <<"*">>)
    THEN Contains(url, IF StartsWith(pattern, <<"*">>) /\ Len(pattern) > 1
                       THEN SubSeq(pattern, 2, Len(pattern) - 1)
                       ELSE SubSeq(pattern, 1, Len(pattern) - 1))
    ELSE IF StartsWith(pattern, <<"*">>)
         THEN EndsWith(url, SubSeq(pattern, 2, Len(pattern)))
         ELSE Contains(url, pattern)

\* C22 as stated: _matches_pattern follows the documented dialect for every
\* URL and every pattern list: it answers True exactly when some pattern of
\* the list matches the URL in the dialect.
C22_GlobDialect ==
    op = "matches_pattern" =>
        (filter_matched <=>
            \E i \in 1..Len(filter_patterns) : Dialect(filter_url, filter_patterns[i]))

\* C28: a product whose own candidates include one whose lowercased and
\* trimmed name is the name of a merged feature is mapped 'O' for that
\* feature.
C28_OwnFeatureIsSupported ==
    op = "map" =>
        \A p \in DOMAIN product_feature_mapping :
            \A name \in DOMAIN product_feature_mapping[p] :
                (\E k \in 1..Len(product_features[p].extracted_features) :
                     NormalizedName(product_features[p].extracted_features[k].name) = name)
                => product_feature_mapping[p][name].status = "O"

\* the merged feature "chat" is mapped for a product whose only candidate is
\* written "Chat ", and for a product that has the candidate "chat" behind
\* another one
C28_Witness ==
    /\ op = "map"
    /\ product_features["ProductB"].extracted_features = <<F_Chat>>
    /\ N_chat \in DOMAIN product_feature_mapping["ProductB"]
    /\ product_feature_mapping["ProductB"][N_chat].status = "O"
    /\ RatEq(product_feature_mapping["ProductB"][N_chat].similarity, Rat(1, 1))
    /\ product_features["ProductA"].extracted_features = <<F_live_chat, F_chat>>
    /\ product_feature_mapping["ProductA"][N_chat].description = F_chat.description

\* the frontier entries appended by a step
Added ==
    IF Len(url_queue') > Len(url_queue) /\ SubSeq(url_queue', 1, Len(url_queue)) = url_queue
    THEN SubSeq(url_queue', Len(url_queue) + 1, Len(url_queue'))
    ELSE <<>>

\* C26 as stated: no URL is placed in the frontier queue more than once
\* during a crawl: the waiting entries have different URLs and none of them
\* is a URL that was already taken from the queue.
C26_NoUrlQueuedTwice ==
    impl = "advanced" =>
        /\ \A i, j \in 1..Len(url_queue) : url_queue[i].url = url_queue[j].url => i = j
        /\ \A i \in 1..Len(url_queue) : url_queue[i].url \notin visited_urls

\* C26, amended: a URL that is in the visited set is never placed in the
\* frontier queue, and an entry whose URL has been visited by the time it is
\* taken from the queue is dropped without a fetch; a URL that is discovered
\* again while its first entry is still waiting is placed in the queue again.
C26_VisitedNeverQueuedOrFetched ==
    [][impl = "advanced" =>
          /\ \A i \in 1..Len(Added) : Added[i].url \notin visited_urls
          /\ (pc = "loop" /\ url_queue # <<>> /\ Head(url_queue).url \in visited_urls) =>
                 /\ pc' \in {"loop", "done"}
                 /\ UNCHANGED <<visited_urls, crawl_results, stats, outbound>>]_vars

\* two entries of the same unvisited URL wait in the frontier, and later the
\* second of two such entries is taken from a crawl that visited the first
C26_Witness ==
    /\ impl = "advanced" /\ pc = "loop"
    /\ Len(url_queue) >= 2
    /\ url_queue[1].url = url_queue[2].url
    /\ url_queue[1].url \notin visited_urls
    /\ url_queue[1].source # url_queue[2].source

\* C23 as stated: a list that crawl() returned keeps, through every later
\* crawl() on the same instance, the contents it had when it was returned.
C23_ReturnedListUnchanged ==
    held # NoHeld => contents(held.ref) = held.at_return

\* C30 as stated: when a crawl() has returned normally, the second call on a
\* reused instance included, successful_pages is the number of PageResults
\* that call returned.
C30_SuccessfulPagesIsReturnedCount ==
    (impl = "advanced" /\ pc = "done") =>
        get_crawl_stats.successful_pages = Len(outcome.value)

\* the list _get_sitemap_urls returns is the one the crawl seeds its frontier
\* from
SitemapStepsAgree ==
    sm_pc = "done" => sitemap_urls = get_sitemap_urls(config, site)

\* C29: sitemap ingestion terminates on every site, sitemap indexes that list
\* themselves or each other included: a started _get_sitemap_urls returns,
\* no _parse_sitemap call is nested deeper than the recursion limit, and the
\* list it returns is the list of get_sitemap_urls.
C29_SitemapIngestionTerminates ==
    /\ (sm_pc = "run") ~> (sm_pc = "done")
    /\ [](Len(sm_stack) <= RecursionLimit /\ SitemapStepsAgree)

\* _get_sitemap_urls returned with URLs on a site whose two sitemap indexes
\* list each other
C29_Witness ==
    /\ sm_pc = "done" /\ site = SiteMutual /\ sitemap_urls # <<>>
    /\ config.respect_robots_txt

\* the kinds of the emitted events that are milestones of a run
MilestoneKinds ==
    {"crawl_start", "url_progress", "analysis_start", "product_progress", "merge",
     "job_completed"}

Milestones == SelectSeq([i \in 1..Len(emitted) |-> emitted[i].kind],
                        LAMBDA k : k \in MilestoneKinds)

Repeat(k, n) == [i \in 1..n |-> k]

TaskEnded == task.pc \in {"returned", "raised"}

EveryCrawlSucceeded ==
    /\ Len(task.all_product_data) = task.total_urls
    /\ \A i \in 1..task.total_urls : task.all_product_data[i]

\* C25 as stated: a run of the task in which every crawl returned pages has
\* ended only with the job 'completed' and with the milestones crawl start,
\* one progress per URL, analysis start, one progress per product, merge
\* step and completion received in this order.
C25_MilestonesThenCompleted ==
    (TaskEnded /\ EveryCrawlSucceeded) =>
        /\ job.status = "completed"
        /\ Milestones = <<"crawl_start">> \o Repeat("url_progress", task.total_urls)
                          \o <<"analysis_start">>
                          \o Repeat("product_progress", task.total_urls)
                          \o <<"merge", "job_completed">>

\* C27 as stated: once cancel_job has set the status of a job whose task
\* is running to 'cancelled', the status stays 'cancelled': the task never
\* makes it 'completed' or 'failed' afterwards.
C27_CancelledStaysCancelled ==
    cancelled \in {"crawl", "analysis"} => job.status = "cancelled"

\* the call of crawl(b) or _crawl_sync(b) that runs alone, after n steps
RECURSIVE alone_after(_, _, _, _, _, _)
alone_after(kind, cfg, w, f, c, n) ==
    IF n = 0 \/ f.pc = "done" THEN <<f, c>>
    ELSE LET s == crawl_step(kind, cfg, w, f, c, Never)
         IN  alone_after(kind, cfg, w, s[1], s[2], n - 1)

\* no crawl takes more steps than this: a pop and a request for every URL,
\* a pop for every link of every page, and the return
StepsOfACrawl == 4 * Cardinality(URLs) + 2

AloneStart(kind, b) ==
    <<Invocation("loop", 1, b, NoEntry, 0, Never, <<>>), seeded(kind, NewCrawler, b)>>

crawl_alone(kind, cfg, w, b) ==
    alone_after(kind, cfg, w, AloneStart(kind, b)[1], AloneStart(kind, b)[2],
                StepsOfACrawl)[1].returned

\* C24: in every interleaving of the steps of concurrent crawls, the visited
\* set, the queue and the result list of each crawl are what they are after
\* as many steps of the same crawl running alone, its rate-limit timestamp is
\* the time of its own latest request, and it returns what it returns alone.
C24_ConcurrentCrawlsAreIndependent ==
    \A i \in 1..MaxConcurrent :
        LET f == invocations[i]
        IN  f.pc # "new" =>
            LET solo == alone_after(impl, config, web, AloneStart(impl, f.base_url)[1],
                                    AloneStart(impl, f.base_url)[2], f.steps)
                c == crawlers[f.crawler]
            IN  /\ f.pc = solo[1].pc /\ f.current = solo[1].current
                /\ c.visited_urls = solo[2].visited_urls
                /\ c.url_queue = solo[2].url_queue
                /\ c.crawl_results = solo[2].crawl_results
                /\ impl = "advanced" => c.last_request_time = f.requested_at
                /\ f.pc = "done" =>
                       f.returned = crawl_alone(impl, config, web, f.base_url)

\* a crawl has returned two pages or more while another crawl of the same
\* site, started before that return, has a page of its own and a request
\* under way
C24_Witness ==
    \E i, j \in 1..MaxConcurrent :
        /\ i # j
        /\ invocations[i].pc = "done" /\ Len(invocations[i].returned) >= 2
        /\ invocations[j].pc = "fetch"
        /\ invocations[j].base_url = invocations[i].base_url
        /\ Len(crawlers[invocations[j].crawler].crawl_results) >= 1
        /\ invocations[j].crawler # invocations[i].crawler

====
